---------------------------- MODULE Spec2Model ----------------------------
(***************************************************************************)
(* Model of the chip analysis engine of whatsminer_chip_map                *)
(* (src/src/analysis.rs), of the view that calls it and renders its        *)
(* layout (src/src/ui.rs), of the log parser (src/src/api.rs) and of the   *)
(* application's update loop (src/src/main.rs).  Each has its own          *)
(* specification; the components that a specification does not run stay   *)
(* at their idle value.                                                    *)
(*                                                                         *)
(* Numbers.  The engine computes in f32/f64.  A float is modelled by the   *)
(* exact rational it stands for, a pair <<n, d>> with d > 0 in lowest      *)
(* terms.  All temperatures of the model are small integers, for which     *)
(* the casts `as f32` are exact.  A standard deviation is the square root  *)
(* of a rational; the model keeps its square (the variance), and keeps a   *)
(* z-score z as the rational sgn(z) * z^2 ("signed square"), which orders  *)
(* and signs exactly as z does.  The i64 nonce counters are modelled as    *)
(* two's complement integers of NonceBits bits.                            *)
(***************************************************************************)
EXTENDS Integers, Sequences, FiniteSets, TLC

VARIABLES
    slots,              \* argument: the boards, each [chips |-> Seq(Chip)]
    chips_per_domain,   \* argument
    pc,                 \* position in analyze_all_slots
    cross_slot_stats,   \* local of analyze_all_slots: per position (mean, std)
    result,             \* the Vec<Vec<ChipAnalysis>> collected so far
    topo,               \* per analysed board: the locals of analyze_single_slot
    caller,             \* a caller that calls analyze_all_slots again: calls, first_result
    view,               \* ui.rs: miner_view, its locals and what it has rendered
    parser,             \* api.rs: parse_text, its locals
    app                 \* main.rs: the fields of App and the fetch task in flight

vars == <<slots, chips_per_domain, pc, cross_slot_stats, result, topo, caller, view, parser, app>>

-----------------------------------------------------------------------------
(* Bounds of the model *)

MaxChips == 7       \* chips on the board of a single-board input
MaxCpd == 3         \* largest chips_per_domain passed
MaxSlots == 3       \* boards of a multi-board input
MaxXChips == 1      \* chips per board of a multi-board input
MaxPairChips == 3   \* chips per board of a two-board input
MaxNChips == 3      \* chips on the board of a nonce input
MaxMixChips == 2    \* chips per board of a two-board input with nonces
NonceBits == 5      \* width of the model's i64

Temps == {40, 50, 53}
XTemps == {50, 51, 53}
PairTemps == {50, 53}

I64_MAX == 2^(NonceBits - 1) - 1
I64_MIN == -(2^(NonceBits - 1))
Nonces == {I64_MIN, -1, 0, 1, 3, I64_MAX}

-----------------------------------------------------------------------------
(* Rationals *)

Abs(x) == IF x < 0 THEN -x ELSE x

RECURSIVE Gcd(_, _)
Gcd(a, b) == IF b = 0 THEN a ELSE Gcd(b, a % b)

Rat(n, d) ==
    LET s == IF d < 0 THEN -1 ELSE 1
        g == Gcd(Abs(n), Abs(d))
    IN  <<(s * n) \div g, (s * d) \div g>>

Zero == <<0, 1>>
FromInt(i) == <<i, 1>>
RAdd(a, b) == Rat(a[1] * b[2] + b[1] * a[2], a[2] * b[2])
RSub(a, b) == Rat(a[1] * b[2] - b[1] * a[2], a[2] * b[2])
RMul(a, b) == Rat(a[1] * b[1], a[2] * b[2])
RDiv(a, b) == Rat(a[1] * b[2], a[2] * b[1])
RLe(a, b) == a[1] * b[2] <= b[1] * a[2]
RLt(a, b) == a[1] * b[2] < b[1] * a[2]
RMax(a, b) == IF RLe(a, b) THEN b ELSE a
RMin(a, b) == IF RLe(a, b) THEN a ELSE b

RECURSIVE RSum(_)
RSum(s) == IF s = <<>> THEN Zero ELSE RAdd(Head(s), RSum(Tail(s)))

RECURSIVE SumSeq(_)
SumSeq(s) == IF s = <<>> THEN 0 ELSE Head(s) + SumSeq(Tail(s))

-----------------------------------------------------------------------------
(* models.rs *)

Chip(t, n) == [temp |-> t, nonce |-> n]
Slot(cs) == [chips |-> cs]

(* analysis.rs: ChipAnalysis and its Default *)
ChipAnalysis(g, z, nd) == [gradient |-> g, cross_slot_zscore |-> z, nonce_deficit |-> nd]
ChipAnalysisDefault == ChipAnalysis(Zero, Zero, Zero)


-----------------------------------------------------------------------------
(* analysis.rs: the section split and the neighbour resolver.  Indices are *)
(* 0-based as in the source; chips[idx + 1] is the source's chips[idx].    *)

div_ceil(a, b) == (a \div b) + (IF a % b > 0 THEN 1 ELSE 0)

saturating_sub(a, b) == IF a >= b THEN a - b ELSE 0

num_domains_of(len, cpd) == div_ceil(len, cpd)

(* mutant: the half of the remaining domains is rounded up *)
bottom_domains_round_up(num_domains) ==
    LET remaining == saturating_sub(num_domains, 1)
    IN  1 + (remaining + 1) \div 2

(* mutant: one intake, every domain is in the bottom section *)
bottom_domains_single_intake(num_domains) == num_domains + 1

bottom_domains_of(num_domains) ==
    LET remaining == saturating_sub(num_domains, 1)
    IN  1 + remaining \div 2

(* mutant: the comparison is strict *)
is_top_section_strict(domain, bottom_domains) == domain > bottom_domains

is_top_section_of(domain, bottom_domains) == domain >= bottom_domains

(* ui.rs, chip_grid: the top section's share of the domains *)
top_domains_of(num_domains) ==
    LET remaining == saturating_sub(num_domains, 1)
    IN  remaining - (remaining \div 2)

(* mutant: the bottom section looks at domain+1 *)
upstream_neighbor_idx_bottom_downstream(len, cpd, num_domains, domain, row, is_top_section) ==
    IF domain + 1 < num_domains /\ (domain + 1) * cpd + row < len
    THEN <<(domain + 1) * cpd + row>>
    ELSE <<>>

(* mutant: the top section looks at domain-1, as if the board did not snake *)
upstream_neighbor_idx_top_downstream(len, cpd, num_domains, domain, row, is_top_section) ==
    IF domain > 0 /\ (domain - 1) * cpd + row < len
    THEN <<(domain - 1) * cpd + row>>
    ELSE <<>>

(* mutant: domain 0 is compared with the last domain, the other intake *)
upstream_neighbor_idx_intake_compare(len, cpd, num_domains, domain, row, is_top_section) ==
    IF is_top_section
    THEN IF domain + 1 < num_domains /\ (domain + 1) * cpd + row < len
         THEN <<(domain + 1) * cpd + row>>
         ELSE <<>>
    ELSE IF domain > 0 /\ (domain - 1) * cpd + row < len
         THEN <<(domain - 1) * cpd + row>>
         ELSE IF domain = 0 /\ num_domains > 1 /\ (num_domains - 1) * cpd + row < len
              THEN <<(num_domains - 1) * cpd + row>>
              ELSE <<>>

(* The neighbour at domain+1 (top section) or domain-1 (bottom section). *)
upstream_neighbor_idx(len, cpd, num_domains, domain, row, is_top_section) ==
    IF is_top_section
    THEN IF domain + 1 < num_domains /\ (domain + 1) * cpd + row < len
         THEN <<(domain + 1) * cpd + row>>
         ELSE <<>>
    ELSE IF domain > 0 /\ (domain - 1) * cpd + row < len
         THEN <<(domain - 1) * cpd + row>>
         ELSE <<>>

(* mutant: the row+1 test admits row + 1 = cpd *)
row_neighbor_idx_off_by_one(len, cpd, domain, row) ==
    (IF row > 0 /\ domain * cpd + (row - 1) < len
     THEN <<domain * cpd + (row - 1)>> ELSE <<>>)
    \o
    (IF row + 1 <= cpd /\ domain * cpd + (row + 1) < len
     THEN <<domain * cpd + (row + 1)>> ELSE <<>>)

(* The neighbours at row-1 and row+1 of the same domain. *)
row_neighbor_idx(len, cpd, domain, row) ==
    (IF row > 0 /\ domain * cpd + (row - 1) < len
     THEN <<domain * cpd + (row - 1)>> ELSE <<>>)
    \o
    (IF row + 1 < cpd /\ domain * cpd + (row + 1) < len
     THEN <<domain * cpd + (row + 1)>> ELSE <<>>)

(* The flat indices whose temperatures get_upstream_neighbor_temps pushes, *)
(* in push order.                                                          *)
get_upstream_neighbor_idx(len, cpd, num_domains, domain, row, is_top_section) ==
    upstream_neighbor_idx(len, cpd, num_domains, domain, row, is_top_section)
    \o row_neighbor_idx(len, cpd, domain, row)

get_upstream_neighbor_temps(chips, cpd, num_domains, domain, row, is_top_section) ==
    LET nb == get_upstream_neighbor_idx(Len(chips), cpd, num_domains, domain, row,
                                        is_top_section)
    IN  [k \in 1..Len(nb) |-> chips[nb[k] + 1].temp]

-----------------------------------------------------------------------------
(* analysis.rs: the three scores *)

(* mutant: the difference is returned without .max(0.0) *)
compute_hot_gradient_signed(center, neighbors) ==
    IF neighbors = <<>>
    THEN Zero
    ELSE RSub(FromInt(center), Rat(SumSeq(neighbors), Len(neighbors)))

(* mutant: the mean is taken by integer division, before the cast *)
compute_hot_gradient_int_mean(center, neighbors) ==
    IF neighbors = <<>>
    THEN Zero
    ELSE RMax(RSub(FromInt(center), FromInt(SumSeq(neighbors) \div Len(neighbors))), Zero)

(* mutant: the sum is divided by the capacity 3, not by the count *)
compute_hot_gradient_by_capacity(center, neighbors) ==
    IF neighbors = <<>>
    THEN Zero
    ELSE RMax(RSub(FromInt(center), Rat(SumSeq(neighbors), 3)), Zero)

compute_hot_gradient(center, neighbors) ==
    IF neighbors = <<>>
    THEN Zero
    ELSE LET neighbor_avg == Rat(SumSeq(neighbors), Len(neighbors))
         IN  RMax(RSub(FromInt(center), neighbor_avg), Zero)

(* (mean, std), the std kept as its square std_sq *)
(* mutant: the sample variance, divided by n - 1 *)
compute_mean_std_sample(temps) ==
    IF temps = <<>>
    THEN [mean |-> Zero, std_sq |-> Zero]
    ELSE LET n == Len(temps)
             mean == Rat(SumSeq(temps), n)
             sq == [k \in 1..n |-> RMul(RSub(FromInt(temps[k]), mean),
                                        RSub(FromInt(temps[k]), mean))]
         IN  IF n = 1
             THEN [mean |-> mean, std_sq |-> Zero]
             ELSE [mean |-> mean, std_sq |-> RDiv(RSum(sq), FromInt(n - 1))]

(* mutant: the variance returned as the standard deviation, no square root *)
compute_mean_std_no_sqrt(temps) ==
    IF temps = <<>>
    THEN [mean |-> Zero, std_sq |-> Zero]
    ELSE LET n == Len(temps)
             mean == Rat(SumSeq(temps), n)
             sq == [k \in 1..n |-> RMul(RSub(FromInt(temps[k]), mean),
                                        RSub(FromInt(temps[k]), mean))]
             variance == RDiv(RSum(sq), FromInt(n))
         IN  IF n = 1
             THEN [mean |-> mean, std_sq |-> Zero]
             ELSE [mean |-> mean, std_sq |-> RMul(variance, variance)]

(* mutant: the mean absolute deviation in place of the standard deviation *)
compute_mean_std_abs_dev(temps) ==
    IF temps = <<>>
    THEN [mean |-> Zero, std_sq |-> Zero]
    ELSE LET n == Len(temps)
             mean == Rat(SumSeq(temps), n)
             ad == [k \in 1..n |-> LET d == RSub(FromInt(temps[k]), mean)
                                   IN  IF d[1] < 0 THEN RSub(Zero, d) ELSE d]
             mad == RDiv(RSum(ad), FromInt(n))
         IN  IF n = 1
             THEN [mean |-> mean, std_sq |-> Zero]
             ELSE [mean |-> mean, std_sq |-> RMul(mad, mad)]

compute_mean_std(temps) ==
    IF temps = <<>>
    THEN [mean |-> Zero, std_sq |-> Zero]
    ELSE LET n == Len(temps)
             mean == Rat(SumSeq(temps), n)
             sq == [k \in 1..n |-> RMul(RSub(FromInt(temps[k]), mean),
                                        RSub(FromInt(temps[k]), mean))]
         IN  IF n = 1
             THEN [mean |-> mean, std_sq |-> Zero]
             ELSE [mean |-> mean, std_sq |-> RDiv(RSum(sq), FromInt(n))]

(* sgn(x) * x^2 *)
SignedSq(x) == IF x[1] < 0 THEN RSub(Zero, RMul(x, x)) ELSE RMul(x, x)

(* mutant: the absolute deviation, cooler chips scored too *)
compute_hot_zscore_two_sided(temp, mean, std_sq) ==
    LET d == RSub(FromInt(temp), mean)
        deviation == IF d[1] < 0 THEN RSub(Zero, d) ELSE d
    IN  IF RLe(deviation, Zero)
        THEN Zero
        ELSE IF RLt(std_sq, <<1, 4>>)
             THEN SignedSq(RMin(deviation, FromInt(3)))
             ELSE RDiv(SignedSq(deviation), std_sq)

(* The z-score, as its signed square. *)
compute_hot_zscore(temp, mean, std_sq) ==
    LET deviation == RSub(FromInt(temp), mean)
    IN  IF RLe(deviation, Zero)
        THEN Zero
        ELSE IF RLt(std_sq, <<1, 4>>)                     \* std < 0.5
             THEN SignedSq(RMin(deviation, FromInt(3)))
             ELSE RDiv(SignedSq(deviation), std_sq)       \* deviation / std

(* i64 arithmetic of the nonce total *)
WrapI64(x) == ((x - I64_MIN) % (2^NonceBits)) + I64_MIN

RECURSIVE nonce_total(_, _)
nonce_total(chips, acc) ==
    IF chips = <<>> THEN acc
    ELSE nonce_total(Tail(chips), WrapI64(acc + Head(chips).nonce))

(* TRUE when an addition of the sum leaves the i64 range *)
RECURSIVE nonce_sum_overflows(_, _)
nonce_sum_overflows(chips, acc) ==
    IF chips = <<>> THEN FALSE
    ELSE LET s == acc + Head(chips).nonce
         IN  \/ s > I64_MAX
             \/ s < I64_MIN
             \/ nonce_sum_overflows(Tail(chips), s)

compute_slot_avg_nonce(chips) ==
    IF chips = <<>>
    THEN Zero
    ELSE Rat(nonce_total(chips, 0), Len(chips))

compute_nonce_deficit(chip_nonce, slot_avg) ==
    IF RLe(slot_avg, Zero)
    THEN Zero
    ELSE IF RLe(slot_avg, FromInt(chip_nonce))
         THEN Zero
         ELSE RMul(RDiv(RSub(slot_avg, FromInt(chip_nonce)), slot_avg), FromInt(100))

-----------------------------------------------------------------------------
(* analysis.rs: analyze_single_slot *)

(* The locals of analyze_single_slot for the chip at flat index idx. *)
chip_topology(len, cpd, idx) ==
    LET num_domains == num_domains_of(len, cpd)
        bottom_domains == bottom_domains_of(num_domains)
        domain == idx \div cpd
        row == idx % cpd
        is_top_section == is_top_section_of(domain, bottom_domains)
    IN  [domain |-> domain, row |-> row, is_top_section |-> is_top_section,
         neighbors |-> get_upstream_neighbor_idx(len, cpd, num_domains, domain, row,
                                                 is_top_section)]

(* The locals of analyze_single_slot for a board; early is the return of   *)
(* the default records for an empty board or chips_per_domain = 0.         *)
slot_topology(slot, cpd) ==
    LET len == Len(slot.chips)
    IN  IF len = 0 \/ cpd = 0
        THEN [early |-> TRUE, num_domains |-> 0, bottom_domains |-> 0, chips |-> <<>>]
        ELSE [early |-> FALSE,
              num_domains |-> num_domains_of(len, cpd),
              bottom_domains |-> bottom_domains_of(num_domains_of(len, cpd)),
              chips |-> [k \in 1..len |-> chip_topology(len, cpd, k - 1)]]

(* mutant: a chip without neighbours takes its cross-slot score as gradient *)
analyze_chip_fleet_gradient(chips, cpd, stats, slot_avg_nonce, idx) ==
    LET chip == chips[idx + 1]
        num_domains == num_domains_of(Len(chips), cpd)
        t == chip_topology(Len(chips), cpd, idx)
        neighbors == get_upstream_neighbor_temps(chips, cpd, num_domains, t.domain, t.row,
                                                 t.is_top_section)
        cross_slot_zscore ==
            IF idx < Len(stats)
            THEN compute_hot_zscore(chip.temp, stats[idx + 1].mean, stats[idx + 1].std_sq)
            ELSE Zero
        gradient == IF neighbors = <<>> THEN cross_slot_zscore
                    ELSE compute_hot_gradient(chip.temp, neighbors)
        nonce_deficit == compute_nonce_deficit(chip.nonce, slot_avg_nonce)
    IN  ChipAnalysis(gradient, cross_slot_zscore, nonce_deficit)

analyze_chip(chips, cpd, stats, slot_avg_nonce, idx) ==
    LET chip == chips[idx + 1]
        num_domains == num_domains_of(Len(chips), cpd)
        t == chip_topology(Len(chips), cpd, idx)
        neighbors == get_upstream_neighbor_temps(chips, cpd, num_domains, t.domain, t.row,
                                                 t.is_top_section)
        gradient == compute_hot_gradient(chip.temp, neighbors)
        cross_slot_zscore ==
            IF idx < Len(stats)
            THEN compute_hot_zscore(chip.temp, stats[idx + 1].mean, stats[idx + 1].std_sq)
            ELSE Zero
        nonce_deficit == compute_nonce_deficit(chip.nonce, slot_avg_nonce)
    IN  ChipAnalysis(gradient, cross_slot_zscore, nonce_deficit)

(* mutant: the early return gives vec![] instead of one default per chip *)
analyze_single_slot_early_empty(slot, cpd, stats) ==
    LET chips == slot.chips
    IN  IF chips = <<>> \/ cpd = 0
        THEN <<>>
        ELSE LET slot_avg_nonce == compute_slot_avg_nonce(chips)
             IN  [k \in 1..Len(chips) |->
                     analyze_chip(chips, cpd, stats, slot_avg_nonce, k - 1)]

analyze_single_slot(slot, cpd, stats) ==
    LET chips == slot.chips
    IN  IF chips = <<>> \/ cpd = 0
        THEN [k \in 1..Len(chips) |-> ChipAnalysisDefault]
        ELSE LET slot_avg_nonce == compute_slot_avg_nonce(chips)
             IN  [k \in 1..Len(chips) |->
                     analyze_chip(chips, cpd, stats, slot_avg_nonce, k - 1)]

(* mutant: the nonce average is computed before the early return *)
slot_sum_overflows_before_guard(slot, cpd) ==
    nonce_sum_overflows(slot.chips, 0)

(* TRUE when analyze_single_slot reaches the nonce sum and the sum leaves  *)
(* the i64 range: a panic in a build with overflow checks, a wrapped total *)
(* in a build without.                                                     *)
slot_sum_overflows(slot, cpd) ==
    /\ slot.chips # <<>>
    /\ cpd # 0
    /\ nonce_sum_overflows(slot.chips, 0)

-----------------------------------------------------------------------------
(* analysis.rs: analyze_all_slots *)

MaxOf(S) == IF S = {} THEN 0
            ELSE LET x == CHOOSE y \in S : \A z \in S : z <= y IN x

max_chips_of(ss) == MaxOf({Len(ss[i].chips) : i \in 1..Len(ss)})

(* mutant: a board without the chip contributes the temperature 0 *)
RECURSIVE filter_map_temps_zero_padded(_, _)
filter_map_temps_zero_padded(ss, chip_idx) ==
    IF ss = <<>> THEN <<>>
    ELSE (IF chip_idx < Len(Head(ss).chips)
          THEN <<Head(ss).chips[chip_idx + 1].temp>> ELSE <<0>>)
         \o filter_map_temps_zero_padded(Tail(ss), chip_idx)

RECURSIVE filter_map_temps(_, _)
filter_map_temps(ss, chip_idx) ==
    IF ss = <<>> THEN <<>>
    ELSE (IF chip_idx < Len(Head(ss).chips)
          THEN <<Head(ss).chips[chip_idx + 1].temp>> ELSE <<>>)
         \o filter_map_temps(Tail(ss), chip_idx)

temps_by_position_of(ss) ==
    [p \in 1..max_chips_of(ss) |-> filter_map_temps(ss, p - 1)]

cross_slot_stats_of(ss) ==
    LET tbp == temps_by_position_of(ss)
    IN  [p \in 1..Len(tbp) |-> compute_mean_std(tbp[p])]

(* The value a call returns (the i64 sum wrapping): what the actions       *)
(* below build board by board.                                             *)
analyze_all_slots(ss, cpd) ==
    IF ss = <<>>
    THEN <<>>
    ELSE LET stats == cross_slot_stats_of(ss)
         IN  [i \in 1..Len(ss) |-> analyze_single_slot(ss[i], cpd, stats)]

-----------------------------------------------------------------------------
(* The calls of analyze_all_slots that the model explores *)

SeqsUpTo(S, n) == UNION {[1..k -> S] : k \in 0..n}

(* one board, every temperature pattern, for the section split and the gradient *)
GradientInputs ==
    {<<Slot(cs)>> : cs \in SeqsUpTo({Chip(t, 0) : t \in Temps}, MaxChips)}

(* up to MaxSlots boards of differing chip counts, for the cross-slot       *)
(* statistics: the first chip of a board takes every temperature of        *)
(* XTemps, the chips after it are at 50                                    *)
CrossInputs ==
    LET Boards == {Slot(<<>>)} \cup
                  {Slot([k \in 1..n |-> IF k = 1 THEN Chip(t, 0) ELSE Chip(50, 0)]) :
                      t \in XTemps, n \in 1..MaxXChips}
    IN  SeqsUpTo(Boards, MaxSlots)

(* two boards of differing chip counts: neighbours and cross-slot samples together *)
PairInputs ==
    LET Boards == {Slot(cs) : cs \in SeqsUpTo({Chip(t, 0) : t \in PairTemps}, MaxPairChips)}
    IN  {<<a, b>> : a \in Boards, b \in Boards}

(* one board, every nonce pattern including the ends of the i64 range *)
NonceInputs ==
    {<<Slot(cs)>> : cs \in SeqsUpTo({Chip(50, n) : n \in Nonces}, MaxNChips)}

(* two boards whose chips differ in temperature and in nonce count, one    *)
(* count at the end of the i64 range                                       *)
MixChips == {Chip(50, 0), Chip(53, 1), Chip(50, I64_MAX)}

MixedInputs ==
    LET Boards == {Slot(cs) : cs \in SeqsUpTo(MixChips, MaxMixChips)}
    IN  {<<a, b>> : a \in Boards, b \in Boards}

(* The calls (slots, chips_per_domain).  The boards of CrossInputs have at *)
(* most MaxXChips chips and are there for the cross-slot scores, which read *)
(* chips_per_domain only in the test for 0.                                *)
Calls ==
    ((GradientInputs \cup PairInputs \cup NonceInputs \cup MixedInputs) \X (0..MaxCpd))
    \cup (CrossInputs \X {0, 1})

(* The components that are not running *)
CallerIdle == [calls |-> 0, first_result |-> <<>>]

ViewIdle ==
    [pc |-> "idle", config |-> <<>>, slot_links |-> <<>>, chip_counts |-> <<>>,
     chips_per_domain |-> <<>>, analysis_cpd |-> <<>>, grids |-> <<>>, next |-> 0]

ParserIdle ==
    [pc |-> "idle", text |-> <<>>, line |-> 0, slots |-> <<>>, current |-> <<>>,
     result |-> <<>>]

AppIdle == [pc |-> "idle"]

AnalysisIdle ==
    /\ slots = <<>>
    /\ chips_per_domain = 0
    /\ pc = "idle"
    /\ cross_slot_stats = <<>>
    /\ result = <<>>
    /\ topo = <<>>

Init ==
    /\ \E c \in Calls : slots = c[1] /\ chips_per_domain = c[2]
    /\ pc = "entry"
    /\ cross_slot_stats = <<>>
    /\ result = <<>>
    /\ topo = <<>>
    /\ caller = CallerIdle
    /\ view = ViewIdle
    /\ parser = ParserIdle
    /\ app = AppIdle

(* analysis.rs 28-30: no boards, return vec![] *)
ReturnEmpty ==
    /\ pc = "entry"
    /\ slots = <<>>
    /\ pc' = "done"
    /\ UNCHANGED <<slots, chips_per_domain, cross_slot_stats, result, topo>>
    /\ UNCHANGED <<caller, view, parser, app>>

(* analysis.rs 32-49: the shared table of per-position statistics *)
BuildCrossSlotStats ==
    /\ pc = "entry"
    /\ slots # <<>>
    /\ cross_slot_stats' = cross_slot_stats_of(slots)
    /\ pc' = "analyze"
    /\ UNCHANGED <<slots, chips_per_domain, result, topo>>
    /\ UNCHANGED <<caller, view, parser, app>>

(* mutant: a counter of the calls made so far survives between calls and   *)
(* shifts chips_per_domain                                                 *)
AnalyzeSlot_hidden_counter ==
    /\ pc = "analyze"
    /\ Len(result) < Len(slots)
    /\ LET slot == slots[Len(result) + 1]
       IN  /\ result' = Append(result,
                               analyze_single_slot(slot, chips_per_domain + caller.calls,
                                                   cross_slot_stats))
           /\ topo' = Append(topo, slot_topology(slot, chips_per_domain))
    /\ UNCHANGED <<slots, chips_per_domain, pc, cross_slot_stats>>
    /\ UNCHANGED <<caller, view, parser, app>>

(* analysis.rs 52-55: the next board of the map, in input order *)
AnalyzeSlot ==
    /\ pc = "analyze"
    /\ Len(result) < Len(slots)
    /\ LET slot == slots[Len(result) + 1]
       IN  /\ result' = Append(result,
                               analyze_single_slot(slot, chips_per_domain, cross_slot_stats))
           /\ topo' = Append(topo, slot_topology(slot, chips_per_domain))
    /\ UNCHANGED <<slots, chips_per_domain, pc, cross_slot_stats>>
    /\ UNCHANGED <<caller, view, parser, app>>

(* analysis.rs 248: the i64 sum of the nonces overflows and the build      *)
(* checks overflow: the call panics.  (Without the check the sum wraps,    *)
(* which AnalyzeSlot models.)  A call that follows a returned call runs in *)
(* the same build: had the build checked overflow, the first call would    *)
(* not have returned.                                                      *)
AnalyzeSlotPanic ==
    /\ pc = "analyze"
    /\ caller.calls = 0
    /\ Len(result) < Len(slots)
    /\ slot_sum_overflows(slots[Len(result) + 1], chips_per_domain)
    /\ pc' = "panicked"
    /\ UNCHANGED <<slots, chips_per_domain, cross_slot_stats, result, topo>>
    /\ UNCHANGED <<caller, view, parser, app>>

(* analysis.rs 55: collect, return *)
Collect ==
    /\ pc = "analyze"
    /\ Len(result) = Len(slots)
    /\ pc' = "done"
    /\ UNCHANGED <<slots, chips_per_domain, cross_slot_stats, result, topo>>
    /\ UNCHANGED <<caller, view, parser, app>>

Next ==
    \/ ReturnEmpty
    \/ BuildCrossSlotStats
    \/ AnalyzeSlot
    \/ AnalyzeSlotPanic
    \/ Collect

Spec == Init /\ [][Next]_vars

-----------------------------------------------------------------------------
(* A caller that calls analyze_all_slots a second time with the same       *)
(* arguments, as App::view does through miner_view on every redraw.        *)

TwiceCalls == ({<<>>} \cup NonceInputs \cup MixedInputs) \X (0..MaxCpd)

InitTwice ==
    /\ \E c \in TwiceCalls : slots = c[1] /\ chips_per_domain = c[2]
    /\ pc = "entry"
    /\ cross_slot_stats = <<>>
    /\ result = <<>>
    /\ topo = <<>>
    /\ caller = CallerIdle
    /\ view = ViewIdle
    /\ parser = ParserIdle
    /\ app = AppIdle

(* ui.rs 58: the call again; the arguments are borrowed unchanged, the     *)
(* locals of the call are new                                              *)
CallAgain ==
    /\ pc = "done"
    /\ caller.calls = 0
    /\ caller' = [calls |-> 1, first_result |-> result]
    /\ pc' = "entry"
    /\ cross_slot_stats' = <<>>
    /\ result' = <<>>
    /\ topo' = <<>>
    /\ UNCHANGED <<slots, chips_per_domain, view, parser, app>>

NextTwice ==
    \/ ReturnEmpty
    \/ BuildCrossSlotStats
    \/ AnalyzeSlot
    \/ AnalyzeSlotPanic
    \/ Collect
    \/ CallAgain

SpecTwice == InitTwice /\ [][NextTwice]_vars

-----------------------------------------------------------------------------
(* Properties *)

Records == UNION {{<<i, k>> : k \in 1..Len(result[i])} : i \in 1..Len(result)}

Analysed == 1..Len(result)

Hundred == FromInt(100)

(* C1: the result has one list per board, in input order, and the i-th     *)
(* list has as many records as the i-th board has chips; no boards give    *)
(* an empty result.  Every list collected so far is the list of the board  *)
(* at its index, and a returned result has a list for every board.         *)
C1_ResultShape ==
    /\ Len(result) <= Len(slots)
    /\ \A i \in Analysed : Len(result[i]) = Len(slots[i].chips)
    /\ pc = "done" => Len(result) = Len(slots)
    /\ (pc = "done" /\ slots = <<>>) => result = <<>>

C1_Witness ==
    /\ pc = "done"
    /\ Len(slots) = MaxSlots
    /\ Len(slots[1].chips) # Len(slots[2].chips)
    /\ chips_per_domain = 0

(* C2: with chips_per_domain = 0 every record of every board is all zero,  *)
(* whatever the temperatures and nonces; a board without chips yields an   *)
(* empty list; and neither case fails: a failure happens only on a board   *)
(* with chips and with chips_per_domain # 0.                               *)
C2_ZeroCpdAndEmptyBoards ==
    /\ chips_per_domain = 0 =>
          /\ pc # "panicked"
          /\ \A r \in Records :
                /\ result[r[1]][r[2]].gradient = Zero
                /\ result[r[1]][r[2]].cross_slot_zscore = Zero
                /\ result[r[1]][r[2]].nonce_deficit = Zero
    /\ \A i \in Analysed : slots[i].chips = <<>> => result[i] = <<>>
    /\ pc = "panicked" =>
          /\ slots[Len(result) + 1].chips # <<>>
          /\ chips_per_domain # 0

C2_Witness ==
    /\ pc = "done"
    /\ chips_per_domain = 0
    /\ Len(slots) = 1
    /\ Len(result[1]) = 2
    /\ slots[1].chips[1].nonce = I64_MAX
    /\ slots[1].chips[2].nonce = 1

NoncesNonNegative ==
    \A i \in 1..Len(slots) : \A k \in 1..Len(slots[i].chips) : slots[i].chips[k].nonce >= 0

(* C3: every record has nonce_deficit within [0, 100], the nonce counts    *)
(* being any signed integers of the counter's width.                       *)
C3_NonceDeficitInRange ==
    \A r \in Records :
        /\ RLe(Zero, result[r[1]][r[2]].nonce_deficit)
        /\ RLe(result[r[1]][r[2]].nonce_deficit, Hundred)

C3_InRangeForNonNegativeNonces == NoncesNonNegative => C3_NonceDeficitInRange

(* C4: every record has gradient >= 0 and cross_slot_zscore >= 0.          *)
C4_ScoresNonNegative ==
    \A r \in Records :
        /\ RLe(Zero, result[r[1]][r[2]].gradient)
        /\ RLe(Zero, result[r[1]][r[2]].cross_slot_zscore)

(* a chip cooler than the mean of its neighbours, and a chip cooler than   *)
(* the cross-board mean of its position                                    *)
C4_Witness ==
    /\ pc = "done"
    /\ chips_per_domain > 0
    /\ \E r \in Records :
          LET nb == topo[r[1]].chips[r[2]].neighbors
              chips == slots[r[1]].chips
          IN  /\ nb # <<>>
              /\ chips[r[2]].temp * Len(nb)
                    < SumSeq([k \in 1..Len(nb) |-> chips[nb[k] + 1].temp])
              /\ result[r[1]][r[2]].gradient = Zero
    /\ \E r \in Records :
          /\ RLt(FromInt(slots[r[1]].chips[r[2]].temp), cross_slot_stats[r[2]].mean)
          /\ result[r[1]][r[2]].cross_slot_zscore = Zero

(* C5: analyze_all_slots has no failing path, also when the nonce counts   *)
(* of a board add up to a value outside the range of the i64 sum.          *)
C5_NoFailingPath == pc # "panicked"

(* The boards analysed past the early return, and their chips *)
Split == {i \in Analysed : ~topo[i].early}

Elements(q) == {q[k] : k \in 1..Len(q)}

(* The neighbours of chip k of board i that lie outside the chip's domain *)
OtherDomainNeighbors(i, k) ==
    {nb \in Elements(topo[i].chips[k].neighbors) :
        nb \div chips_per_domain # topo[i].chips[k].domain}

(* C6: with num_domains = ceil(n / cpd), remaining = num_domains - 1,      *)
(* bottom_domains = 1 + remaining / 2 and top_domains = remaining -        *)
(* remaining / 2: the two add up to num_domains, domain 0 is in the bottom *)
(* section, a chip at flat index idx is treated as top-section exactly     *)
(* when idx / cpd >= bottom_domains, and every domain is in exactly one    *)
(* section.                                                                *)
C6_SectionSplit ==
    \A i \in Split :
        LET n == Len(slots[i].chips)
            cpd == chips_per_domain
            nd == (n + cpd - 1) \div cpd
            remaining == nd - 1
            bottom == 1 + remaining \div 2
            top == remaining - remaining \div 2
            InBottom(d) == \E k \in 1..n : /\ (k - 1) \div cpd = d
                                           /\ ~topo[i].chips[k].is_top_section
            InTop(d) == \E k \in 1..n : /\ (k - 1) \div cpd = d
                                        /\ topo[i].chips[k].is_top_section
        IN  /\ topo[i].num_domains = nd
            /\ topo[i].bottom_domains = bottom
            /\ bottom + top = nd
            /\ \A k \in 1..n :
                  /\ topo[i].chips[k].domain = (k - 1) \div cpd
                  /\ topo[i].chips[k].is_top_section <=> ((k - 1) \div cpd >= bottom)
            /\ InBottom(0) /\ ~InTop(0)
            /\ \A d \in 0..(nd - 1) : InBottom(d) # InTop(d)
            /\ Cardinality({d \in 0..(nd - 1) : InBottom(d)}) = bottom
            /\ Cardinality({d \in 0..(nd - 1) : InTop(d)}) = top

(* a ragged board with both sections *)
C6_Witness ==
    /\ pc = "done"
    /\ chips_per_domain = 2
    /\ Len(slots) = 1
    /\ Len(slots[1].chips) = 5
    /\ topo[1].chips[5].is_top_section
    /\ ~topo[1].chips[4].is_top_section

(* C7, as stated: of the num_domains - 1 domains after the first, the      *)
(* bottom section receives one more than the top section when that number  *)
(* is odd (and as many when it is even).                                   *)
C7_OddLeftoverToBottom ==
    \A i \in Split :
        LET remaining == topo[i].num_domains - 1
            bottom_rest == topo[i].bottom_domains - 1
            top == top_domains_of(topo[i].num_domains)
        IN  /\ bottom_rest + top = remaining
            /\ bottom_rest = top + (remaining % 2)

(* C7, amended: of the num_domains - 1 domains after the first, the top    *)
(* section receives one more than the bottom section when that number is   *)
(* odd, and as many when it is even.                                       *)
C7_OddLeftoverToTop ==
    \A i \in Split :
        LET remaining == topo[i].num_domains - 1
            bottom_rest == topo[i].bottom_domains - 1
            top == top_domains_of(topo[i].num_domains)
        IN  /\ bottom_rest + top = remaining
            /\ top = bottom_rest + (remaining % 2)

(* four domains: the three after the first are split 1 + 2 *)
C7_Witness ==
    /\ pc = "done"
    /\ \E i \in Split :
          /\ topo[i].num_domains = 4
          /\ topo[i].bottom_domains = 2
          /\ top_domains_of(topo[i].num_domains) = 2

(* max(0, a - b) of two temperatures, as a rational *)
Excess(a, b) == IF a > b THEN FromInt(a - b) ELSE Zero

(* C8: a bottom-section chip at (domain d, row r) has the chip at (d-1, r) *)
(* as its upstream neighbour when d > 0 and none when d = 0, and never the *)
(* chip at (d+1, r); with chips_per_domain = 1 its gradient is             *)
(* max(0, temp[d] - temp[d-1]) for d > 0 and 0 for d = 0.                  *)
C8_BottomUpstream ==
    \A i \in Split : \A k \in 1..Len(slots[i].chips) :
        LET c == topo[i].chips[k]
            cpd == chips_per_domain
            chips == slots[i].chips
        IN  ~c.is_top_section =>
              /\ OtherDomainNeighbors(i, k) =
                    IF c.domain > 0 THEN {(c.domain - 1) * cpd + c.row} ELSE {}
              /\ (c.domain + 1) * cpd + c.row \notin Elements(c.neighbors)
              /\ cpd = 1 =>
                    result[i][k].gradient =
                        IF c.domain > 0
                        THEN Excess(chips[k].temp, chips[k - 1].temp)
                        ELSE Zero

(* a bottom-section domain hotter than the domain before it and cooler     *)
(* than the domain after it                                                *)
C8_Witness ==
    /\ pc = "done"
    /\ chips_per_domain = 1
    /\ Len(slots) = 1
    /\ Len(slots[1].chips) = 6
    /\ ~topo[1].chips[2].is_top_section
    /\ ~topo[1].chips[3].is_top_section
    /\ slots[1].chips[1].temp < slots[1].chips[2].temp
    /\ slots[1].chips[2].temp < slots[1].chips[3].temp
    /\ result[1][2].gradient = FromInt(slots[1].chips[2].temp - slots[1].chips[1].temp)

(* C9, as stated: a top-section chip at (domain d, row r) has the chip at  *)
(* (d+1, r) as its upstream neighbour when domain d+1 exists, the highest  *)
(* domain has none, and the chip at (d-1, r) is never a neighbour; with    *)
(* chips_per_domain = 1 its gradient is max(0, temp[d] - temp[d+1]) for    *)
(* d < num_domains - 1 and 0 for the last domain.                          *)
C9_TopUpstreamWheneverDomainExists ==
    \A i \in Split : \A k \in 1..Len(slots[i].chips) :
        LET c == topo[i].chips[k]
            cpd == chips_per_domain
            chips == slots[i].chips
            up == (c.domain + 1) * cpd + c.row
        IN  c.is_top_section =>
              /\ OtherDomainNeighbors(i, k) =
                    IF c.domain + 1 < topo[i].num_domains THEN {up} ELSE {}
              /\ (c.domain - 1) * cpd + c.row \notin Elements(c.neighbors)
              /\ cpd = 1 =>
                    result[i][k].gradient =
                        IF c.domain < topo[i].num_domains - 1
                        THEN Excess(chips[k].temp, chips[k + 1].temp)
                        ELSE Zero

(* C9, amended: a top-section chip at (domain d, row r) has the chip at    *)
(* (d+1, r) as its upstream neighbour when domain d+1 exists and holds a   *)
(* chip at row r (a ragged last domain may not), and no upstream neighbour *)
(* otherwise; the chip at (d-1, r) is never a neighbour; with              *)
(* chips_per_domain = 1 its gradient is max(0, temp[d] - temp[d+1]) for    *)
(* d < num_domains - 1 and 0 for the last domain.                          *)
C9_TopUpstream ==
    \A i \in Split : \A k \in 1..Len(slots[i].chips) :
        LET c == topo[i].chips[k]
            cpd == chips_per_domain
            chips == slots[i].chips
            up == (c.domain + 1) * cpd + c.row
        IN  c.is_top_section =>
              /\ OtherDomainNeighbors(i, k) =
                    IF c.domain + 1 < topo[i].num_domains /\ up < Len(chips)
                    THEN {up} ELSE {}
              /\ (c.domain - 1) * cpd + c.row \notin Elements(c.neighbors)
              /\ cpd = 1 =>
                    result[i][k].gradient =
                        IF c.domain < topo[i].num_domains - 1
                        THEN Excess(chips[k].temp, chips[k + 1].temp)
                        ELSE Zero

(* a top-section domain hotter than the domain after it and cooler than    *)
(* the domain before it                                                    *)
C9_Witness ==
    /\ pc = "done"
    /\ chips_per_domain = 1
    /\ Len(slots) = 1
    /\ Len(slots[1].chips) = 6
    /\ topo[1].chips[4].is_top_section
    /\ slots[1].chips[4].temp < slots[1].chips[5].temp
    /\ slots[1].chips[6].temp < slots[1].chips[5].temp
    /\ result[1][5].gradient = FromInt(slots[1].chips[5].temp - slots[1].chips[6].temp)
    /\ result[1][6].gradient = Zero

(* C10: every chip whose temperature enters a chip's gradient lies in the  *)
(* chip's own section; the last bottom-section domain and the first        *)
(* top-section domain are never compared with each other.                  *)
C10_NeighborsInOwnSection ==
    \A i \in Split : \A k \in 1..Len(slots[i].chips) :
        LET c == topo[i].chips[k]
            b == topo[i].bottom_domains
        IN  \A nb \in Elements(c.neighbors) :
              /\ nb < Len(slots[i].chips)
              /\ topo[i].chips[nb + 1].is_top_section = c.is_top_section
              /\ ~(c.domain = b - 1 /\ topo[i].chips[nb + 1].domain = b)
              /\ ~(c.domain = b /\ topo[i].chips[nb + 1].domain = b - 1)

(* both domains at the seam are hot, and each is scored against the cooler *)
(* upstream domain of its own section                                      *)
C10_Witness ==
    /\ pc = "done"
    /\ chips_per_domain = 1
    /\ Len(slots) = 1
    /\ Len(slots[1].chips) = 6
    /\ ~topo[1].chips[3].is_top_section
    /\ topo[1].chips[4].is_top_section
    /\ slots[1].chips[3].temp = slots[1].chips[4].temp
    /\ topo[1].chips[3].neighbors = <<1>>
    /\ topo[1].chips[4].neighbors = <<4>>
    /\ RLt(Zero, result[1][3].gradient)
    /\ RLt(Zero, result[1][4].gradient)

(* C11: on every board, ragged ones included, a chip has between 0 and 3   *)
(* neighbours: at most one chip of another domain and at most the chips at *)
(* row-1 and row+1 of its own domain; every neighbour's flat index is      *)
(* below the board's chip count, no neighbour is listed twice, and the     *)
(* chip is never its own neighbour.                                        *)
C11_NeighborSet ==
    \A i \in Split : \A k \in 1..Len(slots[i].chips) :
        LET c == topo[i].chips[k]
            cpd == chips_per_domain
            idx == k - 1
            nbs == Elements(c.neighbors)
            own == nbs \ OtherDomainNeighbors(i, k)
        IN  /\ Len(c.neighbors) <= 3
            /\ Cardinality(nbs) = Len(c.neighbors)
            /\ Cardinality(OtherDomainNeighbors(i, k)) <= 1
            /\ \A nb \in OtherDomainNeighbors(i, k) : nb % cpd = c.row
            /\ own \subseteq {idx - 1, idx + 1}
            /\ \A nb \in nbs : 0 <= nb /\ nb < Len(slots[i].chips)
            /\ idx \notin nbs

(* a board of 7 chips in domains of 3: a chip with all three neighbours,   *)
(* and the lone chip of the ragged last domain with none                   *)
C11_Witness ==
    /\ pc = "done"
    /\ chips_per_domain = 3
    /\ Len(slots) = 1
    /\ Len(slots[1].chips) = 7
    /\ topo[1].chips[5].neighbors = <<1, 3, 5>>
    /\ topo[1].chips[7].row + 1 < chips_per_domain
    /\ topo[1].chips[7].neighbors = <<>>

(* The temperatures of the neighbours of chip k of board i *)
NeighborTempsOf(i, k) ==
    LET nb == topo[i].chips[k].neighbors
    IN  [j \in 1..Len(nb) |-> slots[i].chips[nb[j] + 1].temp]

(* C12: a chip's gradient is max(0, temp - arithmetic mean of its          *)
(* neighbours' temperatures), and 0 without neighbours: 0 at or below the  *)
(* mean, the excess above it.                                              *)
C12_GradientFormula ==
    \A i \in Split : \A k \in 1..Len(slots[i].chips) :
        LET ts == NeighborTempsOf(i, k)
            n == Len(ts)
            t == slots[i].chips[k].temp
        IN  result[i][k].gradient =
                IF n = 0 THEN Zero
                ELSE IF t * n <= SumSeq(ts) THEN Zero
                     ELSE Rat(t * n - SumSeq(ts), n)

(* a chip above a mean that is no integer, and a chip below its mean *)
C12_Witness ==
    /\ pc = "done"
    /\ \E r \in Records :
          /\ ~topo[r[1]].early
          /\ Len(NeighborTempsOf(r[1], r[2])) = 3
          /\ result[r[1]][r[2]].gradient[2] = 3
    /\ \E r \in Records :
          /\ ~topo[r[1]].early
          /\ Len(NeighborTempsOf(r[1], r[2])) = 2
          /\ slots[r[1]].chips[r[2]].temp * 2 < SumSeq(NeighborTempsOf(r[1], r[2]))
          /\ result[r[1]][r[2]].gradient = Zero

(* C13: on a board whose chips all have the same temperature every chip's  *)
(* gradient is 0, for every chip count and every chips_per_domain.         *)
C13_UniformNoGradient ==
    \A i \in Analysed :
        (\A k \in 1..Len(slots[i].chips) : slots[i].chips[k].temp = slots[i].chips[1].temp)
        => \A k \in 1..Len(result[i]) : result[i][k].gradient = Zero

(* a uniform board whose chips have one, two and three neighbours *)
C13_Witness ==
    /\ pc = "done"
    /\ chips_per_domain = 3
    /\ Len(slots) = 1
    /\ Len(slots[1].chips) = 7
    /\ \A k \in 1..7 : slots[1].chips[k].temp = 50
    /\ Len(topo[1].chips[1].neighbors) = 1
    /\ Len(topo[1].chips[4].neighbors) = 2
    /\ Len(topo[1].chips[5].neighbors) = 3
    /\ \A k \in 1..7 : result[1][k].gradient = Zero

(* The boards that have a chip at flat index p, and their temperatures there *)
BoardsAt(p) == {i \in 1..Len(slots) : Len(slots[i].chips) > p}

RECURSIVE SumOver(_, _)
SumOver(f, S) ==
    IF S = {} THEN 0
    ELSE LET x == CHOOSE y \in S : TRUE
         IN  f[x] + SumOver(f, S \ {x})

TempSumAt(p) == SumOver([i \in BoardsAt(p) |-> slots[i].chips[p + 1].temp], BoardsAt(p))

(* N^2 times the sum of the squared deviations from the mean, at index p *)
SqDevSumAt(p) ==
    LET N == Cardinality(BoardsAt(p))
        S == TempSumAt(p)
    IN  SumOver([i \in BoardsAt(p) |->
                    (N * slots[i].chips[p + 1].temp - S) * (N * slots[i].chips[p + 1].temp - S)],
                BoardsAt(p))

MeanAt(p) == Rat(TempSumAt(p), Cardinality(BoardsAt(p)))

(* the population variance: the squared deviations divided by N *)
VarianceAt(p) ==
    LET N == Cardinality(BoardsAt(p))
    IN  Rat(SqDevSumAt(p), N * N * N)

LargestChipCount ==
    IF slots = <<>> THEN 0
    ELSE CHOOSE m \in {Len(slots[i].chips) : i \in 1..Len(slots)} :
            \A i \in 1..Len(slots) : Len(slots[i].chips) <= m

(* C14: the statistics at flat index p are those of the temperatures at    *)
(* index p of exactly the boards with more than p chips, divided by the    *)
(* number of those boards; the positions run from 0 to the largest chip    *)
(* count minus 1.                                                          *)
C14_CrossSlotSamples ==
    pc = "done" /\ slots # <<>> =>
        /\ Len(cross_slot_stats) = LargestChipCount
        /\ \A p \in 0..(Len(cross_slot_stats) - 1) :
              /\ BoardsAt(p) # {}
              /\ cross_slot_stats[p + 1].mean = MeanAt(p)
              /\ cross_slot_stats[p + 1].std_sq = VarianceAt(p)

(* two boards of 3 chips and 1 chip with different temperatures at index   *)
(* 0: two samples there, one sample at indices 1 and 2                     *)
C14_Witness ==
    /\ pc = "done"
    /\ Len(slots) = 2
    /\ Len(slots[1].chips) = 3
    /\ Len(slots[2].chips) = 1
    /\ slots[1].chips[1].temp # slots[2].chips[1].temp
    /\ Len(cross_slot_stats) = 3
    /\ cross_slot_stats[1].std_sq # Zero
    /\ cross_slot_stats[2] = [mean |-> FromInt(slots[1].chips[2].temp), std_sq |-> Zero]

(* C15: with chips_per_domain >= 1 a chip's cross_slot_zscore is 0 exactly *)
(* when its temperature is at most the mean of the temperatures at its     *)
(* flat index over the boards that have that index, and is strictly        *)
(* positive otherwise.                                                     *)
C15_ZeroIffNotAboveMean ==
    pc = "done" /\ chips_per_domain >= 1 =>
        \A p \in 0..(LargestChipCount - 1) :
            LET N == Cardinality(BoardsAt(p))
                S == TempSumAt(p)
            IN  \A i \in BoardsAt(p) :
                    LET t == slots[i].chips[p + 1].temp
                        z == result[i][p + 1].cross_slot_zscore
                    IN  /\ (z = Zero) <=> (t * N <= S)
                        /\ z # Zero => z[1] > 0

(* boards 53 / 50 / 50 at index 0: the first chip is above the mean and    *)
(* scored, the other two are below it and score 0                          *)
C15_Witness ==
    /\ pc = "done"
    /\ chips_per_domain >= 1
    /\ Len(slots) = 3
    /\ \A i \in 1..3 : Len(slots[i].chips) = 1
    /\ slots[1].chips[1].temp = 53
    /\ slots[2].chips[1].temp = 50
    /\ slots[3].chips[1].temp = 50
    /\ result[1][1].cross_slot_zscore[1] > 0
    /\ result[2][1].cross_slot_zscore = Zero
    /\ result[3][1].cross_slot_zscore = Zero

(* The square of the score of C16 for a chip of temperature t at index p,  *)
(* in integers: N samples of sum S and of squared deviations Q/N^2 give    *)
(* deviation = (N*t - S)/N and variance = Q/N^3.                           *)
ExpectedScoreSq(N, S, Q, t) ==
    LET D == N * t - S
    IN  IF 4 * Q < N * N * N                    \* variance < 0.25, std < 0.5
        THEN IF D <= 3 * N THEN Rat(D * D, N * N) ELSE FromInt(9)
        ELSE Rat(D * D * N, Q)

C16_LargeStdReached ==
    /\ pc = "done"
    /\ chips_per_domain >= 1
    /\ Len(slots) = 2
    /\ Len(slots[1].chips) >= 1
    /\ Len(slots[2].chips) >= 1
    /\ slots[1].chips[1].temp = 53
    /\ slots[2].chips[1].temp = 50
    /\ cross_slot_stats[1].std_sq = <<9, 4>>
    /\ result[1][1].cross_slot_zscore = <<1, 1>>

(* The indices all of three boards have, and the boards hotter by at       *)
(* least d than two equally warm others there.                             *)
SharedIndices == {p \in 0..(MaxChips + 1) : \A i \in 1..Len(slots) : Len(slots[i].chips) > p}

HotOfThree(p, h, d) ==
    LET others == (1..3) \ {h}
    IN  /\ \A o \in others : \A o2 \in others :
              slots[o].chips[p + 1].temp = slots[o2].chips[p + 1].temp
        /\ \A o \in others :
              slots[h].chips[p + 1].temp - slots[o].chips[p + 1].temp >= d

OneHotScored(p, h) ==
    /\ RLt(FromInt(1), result[h][p + 1].cross_slot_zscore)
    /\ \A o \in (1..3) \ {h} : result[o][p + 1].cross_slot_zscore = Zero

(* C17 as stated: temperatures t+d, t, t with any integer d > 0 at one     *)
(* index of three boards give the hot chip a score > 1 and the others 0.   *)
C17_OneHotOfThree ==
    pc = "done" /\ Len(slots) = 3 =>
        \A p \in SharedIndices : \A h \in 1..3 :
            HotOfThree(p, h, 1) => OneHotScored(p, h)

(* C17, as the code has it: with chips_per_domain >= 1 and d >= 2 the hot  *)
(* chip scores > 1 (sqrt 2) and the other two score 0.  With d = 1 the     *)
(* standard deviation is sqrt(2)/3 < 0.5 and the score is the deviation,   *)
(* 2/3; with chips_per_domain = 0 every score is 0.                        *)
C17_OneHotOfThreeByTwo ==
    pc = "done" /\ Len(slots) = 3 /\ chips_per_domain >= 1 =>
        \A p \in SharedIndices : \A h \in 1..3 :
            HotOfThree(p, h, 2) => OneHotScored(p, h)

C17_Witness ==
    /\ pc = "done"
    /\ Len(slots) = 3
    /\ chips_per_domain >= 1
    /\ 0 \in SharedIndices
    /\ HotOfThree(0, 2, 2)
    /\ slots[2].chips[1].temp = 53
    /\ slots[1].chips[1].temp = 51
    /\ result[2][1].cross_slot_zscore = <<2, 1>>
    /\ result[1][1].cross_slot_zscore = Zero

(* The sum of a board's nonce counts in the integers, and whether the i64  *)
(* sum of the code leaves the range on the way.                            *)
RECURSIVE TrueNonceSum(_)
TrueNonceSum(chips) ==
    IF chips = <<>> THEN 0 ELSE Head(chips).nonce + TrueNonceSum(Tail(chips))

BoardOverflows(i) == nonce_sum_overflows(slots[i].chips, 0)

(* the deficit of C18 for chip k of board i, from the board's true mean S/n *)
ExpectedDeficit(i, k) ==
    LET S == TrueNonceSum(slots[i].chips)
        n == Len(slots[i].chips)
        c == slots[i].chips[k].nonce
    IN  IF S <= 0 \/ c * n >= S
        THEN Zero
        ELSE Rat((S - c * n) * 100, S)

(* C18: with chips_per_domain >= 1 a chip's nonce_deficit is 0 when the    *)
(* board's average nonce count is <= 0 or the chip's count is >= that      *)
(* average, and otherwise (avg - chip_nonce) / avg * 100, avg being the    *)
(* mean nonce count of the chips of the same board.                        *)
C18_DeficitFormula ==
    chips_per_domain >= 1 =>
        \A r \in Records : result[r[1]][r[2]].nonce_deficit = ExpectedDeficit(r[1], r[2])

(* C18 on the boards whose nonce sum stays inside i64 *)
C18_FormulaWithoutOverflow ==
    chips_per_domain >= 1 =>
        \A r \in Records :
            ~BoardOverflows(r[1]) =>
                result[r[1]][r[2]].nonce_deficit = ExpectedDeficit(r[1], r[2])

(* a board of nonces 1, 3: the first chip is half below the average 2 *)
C18_FormulaReached ==
    /\ pc = "done"
    /\ chips_per_domain >= 1
    /\ Len(slots) = 1
    /\ Len(slots[1].chips) = 2
    /\ slots[1].chips[1].nonce = 1
    /\ slots[1].chips[2].nonce = 3
    /\ result[1][1].nonce_deficit = FromInt(50)
    /\ result[1][2].nonce_deficit = Zero

(* C19: a chip with nonce count 0 on a board whose average nonce count is  *)
(* positive has nonce_deficit exactly 100.                                 *)
C19_DeadChipHundred ==
    chips_per_domain >= 1 =>
        \A r \in Records :
            /\ slots[r[1]].chips[r[2]].nonce = 0
            /\ TrueNonceSum(slots[r[1]].chips) > 0
            => result[r[1]][r[2]].nonce_deficit = Hundred

(* C19 on the boards whose nonce sum stays inside i64 *)
C19_DeadChipWithoutOverflow ==
    chips_per_domain >= 1 =>
        \A r \in Records :
            /\ slots[r[1]].chips[r[2]].nonce = 0
            /\ TrueNonceSum(slots[r[1]].chips) > 0
            /\ ~BoardOverflows(r[1])
            => result[r[1]][r[2]].nonce_deficit = Hundred

(* nonces 3, 0, 1: the dead chip in the middle has deficit 100 *)
C19_DeadChipReached ==
    /\ pc = "done"
    /\ chips_per_domain >= 1
    /\ Len(slots) = 1
    /\ Len(slots[1].chips) = 3
    /\ slots[1].chips[1].nonce = 3
    /\ slots[1].chips[2].nonce = 0
    /\ slots[1].chips[3].nonce = 1
    /\ result[1][2].nonce_deficit = Hundred

(* The call with board i as its only board *)
Alone(i) == analyze_all_slots(<<slots[i]>>, chips_per_domain)[1]

(* the one-to-one maps of 1..n onto itself *)
Perms(n) == {f \in [1..n -> 1..n] : \A a \in 1..n : \A b \in 1..n : f[a] = f[b] => a = b}

(* C20: in a call of two or more boards, a board's gradient and            *)
(* nonce_deficit values are those the board gets when it is analysed alone *)
(* with the same chips_per_domain, whatever the other boards of the call   *)
(* are; and the result of the call on the permuted boards is the result    *)
(* permuted the same way.                                                  *)
C20_OwnBoardOnly ==
    pc = "done" /\ Len(slots) >= 2 =>
        /\ Len(result) = Len(slots)
        /\ \A i \in 1..Len(slots) :
              LET alone == Alone(i)
              IN  /\ Len(alone) = Len(result[i])
                  /\ \A k \in 1..Len(result[i]) :
                        /\ result[i][k].gradient = alone[k].gradient
                        /\ result[i][k].nonce_deficit = alone[k].nonce_deficit
        /\ \A f \in Perms(Len(slots)) :
              analyze_all_slots([i \in 1..Len(slots) |-> slots[f[i]]], chips_per_domain)
                  = [i \in 1..Len(slots) |-> result[f[i]]]

(* boards (53 with 1 nonce, 50 with 0 nonces) and (50 with 0 nonces),      *)
(* chips_per_domain 2: the first chip has gradient 3 and the second        *)
(* deficit 100 as they have alone, while the first chip's cross-slot score *)
(* is 1 here and 0 alone; the two boards differ, so swapping them matters  *)
C20_Witness ==
    /\ pc = "done"
    /\ chips_per_domain = 2
    /\ slots = <<Slot(<<Chip(53, 1), Chip(50, 0)>>), Slot(<<Chip(50, 0)>>)>>
    /\ result[1][1].gradient = FromInt(3)
    /\ result[1][2].nonce_deficit = Hundred
    /\ Alone(1)[1].gradient = FromInt(3)
    /\ result[1][1].cross_slot_zscore = FromInt(1)
    /\ Alone(1)[1].cross_slot_zscore = Zero
    /\ result[1] # result[2]

(* a call of two boards returns although the second board's nonce total    *)
(* wraps: the first board's values are those it has alone                  *)
C20_WrappingNeighbourReached ==
    /\ pc = "done"
    /\ chips_per_domain = 2
    /\ slots = <<Slot(<<Chip(53, 1), Chip(50, 0)>>), Slot(<<Chip(53, 1), Chip(50, I64_MAX)>>)>>
    /\ BoardOverflows(2)
    /\ result[1][2].nonce_deficit = Hundred

-----------------------------------------------------------------------------
(* ui.rs: miner_view chooses chips_per_domain, calls the analysis with it  *)
(* and renders every slot with it.  A board of the view is its chip count; *)
(* an Option is a sequence, None = <<>> and Some(x) = <<x>>.               *)

MaxChipCount == 620     \* largest chip count of the board of a one-board view

(* config.rs: the chips_per_domain values of the hardware table *)
ConfigCpds == 1..6

(* chip counts of the boards of a two-board view *)
FirstBoardCounts == {0, 8, 60}
SecondBoardCounts == {7}

(* ui.rs 221 and 231: the candidates of the two loops, in loop order *)
InRangeCandidates == <<3, 2, 4, 5, 6>>
FallbackCandidates == <<2, 3, 4, 5, 6>>

is_multiple_of(a, b) == a % b = 0

(* ui.rs 225: (20..=100).contains(&domains) *)
reasonable_domain_count(domains) == 20 <= domains /\ domains <= 100

FirstIndex(S) == CHOOSE k \in S : \A j \in S : k <= j

(* mutant: the fallback loop runs over 3, 2, 4, 5, 6 *)
infer_chips_per_domain_listed_order(chip_count) ==
    LET hit == {k \in 1..Len(InRangeCandidates) :
                   /\ is_multiple_of(chip_count, InRangeCandidates[k])
                   /\ reasonable_domain_count(chip_count \div InRangeCandidates[k])}
        fallback == {k \in 1..Len(InRangeCandidates) :
                        is_multiple_of(chip_count, InRangeCandidates[k])}
    IN  IF hit # {} THEN InRangeCandidates[FirstIndex(hit)]
        ELSE IF fallback # {} THEN InRangeCandidates[FirstIndex(fallback)]
        ELSE 3

(* ui.rs 217-237 *)
infer_chips_per_domain(chip_count) ==
    LET hit == {k \in 1..Len(InRangeCandidates) :
                   /\ is_multiple_of(chip_count, InRangeCandidates[k])
                   /\ reasonable_domain_count(chip_count \div InRangeCandidates[k])}
        fallback == {k \in 1..Len(FallbackCandidates) :
                        is_multiple_of(chip_count, FallbackCandidates[k])}
    IN  IF hit # {} THEN InRangeCandidates[FirstIndex(hit)]
        ELSE IF fallback # {} THEN FallbackCandidates[FirstIndex(fallback)]
        ELSE 3

(* ui.rs 495-529: the rows of a section, each the flat chip indices of its *)
(* cells from left to right; -1 is the Space drawn where no chip is        *)
render_section(len, cpd, start_domain, end_domain, reversed) ==
    LET domain_count == end_domain - start_domain
    IN  [r \in 1..cpd |->
            [i \in 1..domain_count |->
                LET domain_idx == IF reversed THEN end_domain - 1 - (i - 1)
                                  ELSE start_domain + (i - 1)
                    chip_idx == domain_idx * cpd + (r - 1)
                IN  IF chip_idx < len THEN chip_idx ELSE -1]]

(* mutant: the domains are split in two halves, without the first domain   *)
(* set apart                                                               *)
chip_grid_even_split(len, cpd) ==
    LET num_domains == IF cpd > 0 THEN div_ceil(len, cpd) ELSE 1
        bottom_domains == num_domains \div 2
        top_domains == num_domains - bottom_domains
    IN  [num_domains |-> num_domains,
         bottom_domains |-> bottom_domains,
         top_domains |-> top_domains,
         top |-> IF top_domains > 0
                 THEN render_section(len, cpd, bottom_domains, num_domains, FALSE)
                 ELSE <<>>,
         bottom |-> render_section(len, cpd, 0, bottom_domains, TRUE)]

(* ui.rs 438-492 *)
chip_grid(len, cpd) ==
    LET num_domains == IF cpd > 0 THEN div_ceil(len, cpd) ELSE 1
        remaining == saturating_sub(num_domains, 1)
        bottom_domains == 1 + remaining \div 2
        top_domains == remaining - (remaining \div 2)
    IN  [num_domains |-> num_domains,
         bottom_domains |-> bottom_domains,
         top_domains |-> top_domains,
         top |-> IF top_domains > 0
                 THEN render_section(len, cpd, bottom_domains, num_domains, FALSE)
                 ELSE <<>>,
         bottom |-> render_section(len, cpd, 0, bottom_domains, TRUE)]

(* ui.rs 239-286: the layout line of the header and the grid *)
slot_grid(len, cpd) ==
    LET domains == IF cpd > 0 THEN div_ceil(len, cpd) ELSE 1
        remaining == saturating_sub(domains, 1)
    IN  [kind |-> "slot",
         chips |-> len,
         chips_per_domain |-> cpd,
         domains |-> domains,
         bottom_domains |-> 1 + remaining \div 2,
         top_domains |-> remaining - (remaining \div 2),
         grid |-> chip_grid(len, cpd)]

(* ui.rs 386-433 *)
linked_chip_grid(len, cpd) ==
    LET num_domains == IF cpd > 0 THEN div_ceil(len, cpd) ELSE 1
        right_domains == (num_domains + 1) \div 2
        left_domains == num_domains - right_domains
    IN  [num_domains |-> num_domains,
         right_domains |-> right_domains,
         left_domains |-> left_domains]

(* ui.rs 288-384: two linked slots, both drawn with the same chips_per_domain *)
linked_slot_grid(top_len, bottom_len, cpd) ==
    [kind |-> "linked",
     chips_per_domain |-> cpd,
     top_grid |-> linked_chip_grid(top_len, cpd),
     bottom_grid |-> linked_chip_grid(bottom_len, cpd)]

(* The views: the looked-up configuration, its slot links, the boards *)
ViewBoards ==
    {<<>>} \cup {<<n>> : n \in 0..MaxChipCount}
           \cup {<<n, m>> : n \in FirstBoardCounts, m \in SecondBoardCounts}

ViewConfigs ==
    {[config |-> <<>>, slot_links |-> <<>>]}
    \cup {[config |-> <<c>>, slot_links |-> l] : c \in ConfigCpds, l \in {<<>>, <<<<0, 1>>>>}}

InitView ==
    /\ \E b \in ViewBoards : \E c \in ViewConfigs :
          view = [pc |-> "lookup", config |-> c.config, slot_links |-> c.slot_links,
                  chip_counts |-> b, chips_per_domain |-> <<>>, analysis_cpd |-> <<>>,
                  grids |-> <<>>, next |-> 0]
    /\ AnalysisIdle
    /\ caller = CallerIdle
    /\ parser = ParserIdle
    /\ app = AppIdle

(* mutant: the value is inferred again from the board being drawn *)
RenderSlot_inferred_per_slot ==
    /\ view.pc = "render"
    /\ view.slot_links = <<>>
    /\ view.next < Len(view.chip_counts)
    /\ view' = [view EXCEPT
                   !.grids = Append(@, slot_grid(view.chip_counts[view.next + 1],
                                                 infer_chips_per_domain(
                                                     view.chip_counts[view.next + 1]))),
                   !.next = @ + 1]
    /\ UNCHANGED <<slots, chips_per_domain, pc, cross_slot_stats, result, topo>>
    /\ UNCHANGED <<caller, parser, app>>

(* ui.rs 44-56 *)
ChooseChipsPerDomain ==
    /\ view.pc = "lookup"
    /\ view' = [view EXCEPT
                   !.chips_per_domain =
                       IF view.config # <<>> THEN <<view.config[1]>>
                       ELSE IF view.chip_counts # <<>>
                            THEN <<infer_chips_per_domain(view.chip_counts[1])>>
                            ELSE <<3>>,
                   !.pc = "analysis"]
    /\ UNCHANGED <<slots, chips_per_domain, pc, cross_slot_stats, result, topo>>
    /\ UNCHANGED <<caller, parser, app>>

(* ui.rs 58: the argument of the analysis call *)
CallAnalysis ==
    /\ view.pc = "analysis"
    /\ view' = [view EXCEPT !.analysis_cpd = view.chips_per_domain, !.pc = "render"]
    /\ UNCHANGED <<slots, chips_per_domain, pc, cross_slot_stats, result, topo>>
    /\ UNCHANGED <<caller, parser, app>>

(* ui.rs 92-105: no slot links, the next slot is drawn by slot_grid *)
RenderSlot ==
    /\ view.pc = "render"
    /\ view.slot_links = <<>>
    /\ view.next < Len(view.chip_counts)
    /\ view' = [view EXCEPT
                   !.grids = Append(@, slot_grid(view.chip_counts[view.next + 1],
                                                 view.chips_per_domain[1])),
                   !.next = @ + 1]
    /\ UNCHANGED <<slots, chips_per_domain, pc, cross_slot_stats, result, topo>>
    /\ UNCHANGED <<caller, parser, app>>

(* ui.rs 69-89: the next pair of linked slots, drawn when both exist *)
RenderLinked ==
    /\ view.pc = "render"
    /\ view.slot_links # <<>>
    /\ view.next < Len(view.slot_links)
    /\ LET link == view.slot_links[view.next + 1]
           left_idx == link[1]
           right_idx == link[2]
       IN  view' = [view EXCEPT
                       !.grids = IF left_idx < Len(view.chip_counts)
                                    /\ right_idx < Len(view.chip_counts)
                                 THEN Append(@, linked_slot_grid(
                                                    view.chip_counts[left_idx + 1],
                                                    view.chip_counts[right_idx + 1],
                                                    view.chips_per_domain[1]))
                                 ELSE @,
                       !.next = @ + 1]
    /\ UNCHANGED <<slots, chips_per_domain, pc, cross_slot_stats, result, topo>>
    /\ UNCHANGED <<caller, parser, app>>

(* ui.rs 107-130: the grids are done, the element is returned *)
ReturnView ==
    /\ view.pc = "render"
    /\ view.next = (IF view.slot_links = <<>> THEN Len(view.chip_counts)
                    ELSE Len(view.slot_links))
    /\ view' = [view EXCEPT !.pc = "done"]
    /\ UNCHANGED <<slots, chips_per_domain, pc, cross_slot_stats, result, topo>>
    /\ UNCHANGED <<caller, parser, app>>

NextView ==
    \/ ChooseChipsPerDomain
    \/ CallAnalysis
    \/ RenderSlot
    \/ RenderLinked
    \/ ReturnView

SpecView == InitView /\ [][NextView]_vars

-----------------------------------------------------------------------------
(* Properties of the view *)

SlotGrids == {k \in 1..Len(view.grids) : view.grids[k].kind = "slot"}

(* the chips drawn in the rows of a section *)
CellsOf(rows) ==
    UNION {{rows[r][i] : i \in 1..Len(rows[r])} : r \in 1..Len(rows)} \ {-1}

(* the analysis engine's split of a board of len chips *)
EngineTopDomains(len, cpd) ==
    LET num_domains == num_domains_of(len, cpd)
        bottom_domains == bottom_domains_of(num_domains)
    IN  Cardinality({d \in 0..(num_domains - 1) : is_top_section_of(d, bottom_domains)})

EngineTopChips(len, cpd) ==
    {idx \in 0..(len - 1) : chip_topology(len, cpd, idx).is_top_section}

(* C22: for every chip count and chips_per_domain >= 1, slot_grid and      *)
(* chip_grid compute the num_domains, bottom_domains and top_domains of    *)
(* the analysis engine, and the chips drawn in the top section are exactly *)
(* those the analysis places in the top section.                           *)
C22_RenderedSplitIsEngineSplit ==
    \A k \in SlotGrids :
        LET g == view.grids[k]
            len == g.chips
            cpd == g.chips_per_domain
            num_domains == num_domains_of(len, cpd)
            bottom_domains == bottom_domains_of(num_domains)
        IN  cpd >= 1 =>
              /\ g.domains = num_domains
              /\ g.bottom_domains = bottom_domains
              /\ g.top_domains = EngineTopDomains(len, cpd)
              /\ g.grid.num_domains = num_domains
              /\ g.grid.bottom_domains = bottom_domains
              /\ g.grid.top_domains = EngineTopDomains(len, cpd)
              /\ CellsOf(g.grid.top) = EngineTopChips(len, cpd)
              /\ CellsOf(g.grid.bottom) = (0..(len - 1)) \ EngineTopChips(len, cpd)

(* 7 chips drawn with the configured chips_per_domain 2: four domains, the *)
(* last one short of a chip                                                *)
C22_Witness ==
    /\ view.pc = "done"
    /\ view.config = <<2>>
    /\ view.chip_counts = <<7>>
    /\ Len(view.grids) = 1
    /\ view.grids[1].domains = 4
    /\ view.grids[1].bottom_domains = 2
    /\ view.grids[1].top_domains = 2
    /\ view.grids[1].grid.top = <<<<4, 6>>, <<5, -1>>>>
    /\ view.grids[1].grid.bottom = <<<<2, 0>>, <<3, 1>>>>
    /\ EngineTopChips(7, 2) = {4, 5, 6}

(* The view has inferred chips_per_domain from the first board *)
Inferred ==
    /\ view.config = <<>>
    /\ view.chip_counts # <<>>
    /\ view.chips_per_domain # <<>>

Candidates == {2, 3, 4, 5, 6}

(* the candidates that divide n evenly, and those whose quotient is in [20, 100] *)
EvenDivisors(n) == {c \in Candidates : n % c = 0}

InRangeDivisors(n) == {c \in EvenDivisors(n) : 20 <= n \div c /\ n \div c <= 100}

Smallest(S) == CHOOSE c \in S : \A e \in S : c <= e

(* the first element of a sequence of candidates that is in S *)
FirstListed(order, S) ==
    order[CHOOSE k \in 1..Len(order) :
              /\ order[k] \in S
              /\ \A j \in 1..(k - 1) : order[j] \notin S]

(* C23: when a candidate divides the chip count evenly with a quotient in  *)
(* [20, 100], infer_chips_per_domain returns the smallest such candidate.  *)
C23_SmallestInRange ==
    Inferred =>
        LET n == view.chip_counts[1]
        IN  InRangeDivisors(n) # {} =>
                view.chips_per_domain[1] = Smallest(InRangeDivisors(n))

(* what the first loop returns: the first candidate in the order           *)
(* 3, 2, 4, 5, 6 that qualifies                                            *)
C23_FirstInRangeInLoopOrder ==
    Inferred =>
        LET n == view.chip_counts[1]
        IN  InRangeDivisors(n) # {} =>
                view.chips_per_domain[1] = FirstListed(<<3, 2, 4, 5, 6>>, InRangeDivisors(n))

(* 60 chips: 2 gives 30 domains and 3 gives 20, 3 is returned *)
C23_SixtyChipsReached ==
    /\ Inferred
    /\ view.chip_counts[1] = 60
    /\ InRangeDivisors(60) = {2, 3}
    /\ view.chips_per_domain = <<3>>

(* C24 as stated: when no candidate's quotient is in [20, 100], the first  *)
(* candidate in the order 3, 2, 4, 5, 6 that divides the chip count evenly *)
(* is returned, and 3 when none divides it.                                *)
C24_FallbackInListedOrder ==
    Inferred =>
        LET n == view.chip_counts[1]
        IN  InRangeDivisors(n) = {} =>
                view.chips_per_domain[1] =
                    IF EvenDivisors(n) = {} THEN 3
                    ELSE FirstListed(<<3, 2, 4, 5, 6>>, EvenDivisors(n))

(* C24, as the code has it: when no candidate's quotient is in [20, 100],  *)
(* the smallest candidate that divides the chip count evenly is returned   *)
(* (the fallback loop runs over 2, 3, 4, 5, 6), and 3 when none divides.   *)
C24_FallbackSmallestDivisor ==
    Inferred =>
        LET n == view.chip_counts[1]
        IN  InRangeDivisors(n) = {} =>
                view.chips_per_domain[1] =
                    IF EvenDivisors(n) = {} THEN 3 ELSE Smallest(EvenDivisors(n))

(* 6 chips: 2 and 3 divide, no quotient is in [20, 100], 2 is returned *)
C24_Witness ==
    /\ Inferred
    /\ view.chip_counts[1] = 6
    /\ InRangeDivisors(6) = {}
    /\ EvenDivisors(6) = {2, 3, 6}
    /\ view.chips_per_domain = <<2>>

(* 7 chips: no candidate divides, the default 3 *)
C24_DefaultReached ==
    /\ Inferred
    /\ view.chip_counts[1] = 7
    /\ EvenDivisors(7) = {}
    /\ view.chips_per_domain = <<3>>

(* C25: miner_view uses one chips_per_domain for the analysis call and for *)
(* every slot it draws: the configured value when the lookup succeeds,     *)
(* otherwise the value inferred from the first slot's chip count,          *)
(* otherwise 3 when there are no slots; an inferred value is one of        *)
(* 2, 3, 4, 5, 6, so the analysis does not receive 0 from inference.       *)
C25_OneChipsPerDomain ==
    /\ view.chips_per_domain # <<>> =>
          view.chips_per_domain[1] =
              IF view.config # <<>> THEN view.config[1]
              ELSE IF view.chip_counts # <<>>
                   THEN infer_chips_per_domain(view.chip_counts[1])
                   ELSE 3
    /\ view.analysis_cpd # <<>> => view.analysis_cpd = view.chips_per_domain
    /\ \A k \in 1..Len(view.grids) :
          /\ view.chips_per_domain # <<>>
          /\ view.grids[k].chips_per_domain = view.chips_per_domain[1]
    /\ view.pc = "done" /\ view.slot_links = <<>> => Len(view.grids) = Len(view.chip_counts)
    /\ view.config = <<>> /\ view.analysis_cpd # <<>> =>
          /\ view.analysis_cpd[1] \in Candidates
          /\ view.analysis_cpd[1] # 0

(* boards of 8 and 7 chips without a configuration: 2 is inferred from the *)
(* first board and used for the analysis and for both boards, although 7   *)
(* chips alone would give 3                                                *)
C25_Witness ==
    /\ view.pc = "done"
    /\ view.config = <<>>
    /\ view.chip_counts = <<8, 7>>
    /\ view.analysis_cpd = <<2>>
    /\ Len(view.grids) = 2
    /\ view.grids[1].chips_per_domain = 2
    /\ view.grids[2].chips_per_domain = 2
    /\ infer_chips_per_domain(7) = 3

(* a first board without chips: 2 is inferred *)
C25_EmptyFirstBoardReached ==
    /\ view.pc = "done"
    /\ view.config = <<>>
    /\ view.chip_counts = <<0, 7>>
    /\ view.analysis_cpd = <<2>>

-----------------------------------------------------------------------------
(* main.rs: the fields of App, the messages of App::update.  The status is *)
(* kept as what it was formatted from; an Option is a sequence.  in_flight *)
(* counts the tasks of Task::perform that have not completed; last is the  *)
(* message handled last, with the status and loading it found.             *)

Languages == {"English", "Russian"}

ColorModes == {"Temperature", "Errors"}

Ips == {"192.7.1.193", "10.0.0.2"}
Users == {"admin", "root"}
Passes == {"admin", "secret"}

(* the x of a DividerDrag, below and above the clamp range *)
DragXs == {100, 600}

(* what fetch_all can complete with: the chip counts of the slots and the  *)
(* model name, or an error text                                            *)
FetchOutcomes ==
    {[ok |-> TRUE, data |-> <<7>>, info |-> "M30S", error |-> ""],
     [ok |-> TRUE, data |-> <<7, 8>>, info |-> "M50", error |-> ""],
     [ok |-> FALSE, data |-> <<>>, info |-> "", error |-> "timeout"]}

ready(lang) == [kind |-> "ready", lang |-> lang, slots |-> 0, chips |-> 0, error |-> ""]

connecting(lang) == [kind |-> "connecting", lang |-> lang, slots |-> 0, chips |-> 0, error |-> ""]

(* main.rs 97-103: "{slots} {Tr::slots} , {total_chips} {Tr::chips}" *)
summary(lang, data) ==
    [kind |-> "summary", lang |-> lang, slots |-> Len(data), chips |-> SumSeq(data),
     error |-> ""]

(* main.rs 109: "{Tr::error}: {e}" *)
error_status(lang, e) == [kind |-> "error", lang |-> lang, slots |-> 0, chips |-> 0, error |-> e]

clamp(x, lo, hi) == IF x < lo THEN lo ELSE IF x > hi THEN hi ELSE x

Handled(msg) == [msg |-> msg, status |-> app.status, loading |-> app.loading]

(* main.rs 64-78: App::new *)
InitApp ==
    /\ app = [ip |-> "192.7.1.193", user |-> "admin", pass |-> "admin",
              status |-> ready("English"), data |-> <<>>, system_info |-> <<>>,
              loading |-> FALSE, sidebar_width |-> 500, dragging |-> FALSE,
              color_mode |-> "Temperature", language |-> "English",
              in_flight |-> 0,
              last |-> [msg |-> "new", status |-> ready("English"), loading |-> FALSE]]
    /\ AnalysisIdle
    /\ caller = CallerIdle
    /\ view = ViewIdle
    /\ parser = ParserIdle

(* main.rs 83 *)
IpChanged ==
    /\ \E v \in Ips : app' = [app EXCEPT !.ip = v, !.last = Handled("IpChanged")]
    /\ UNCHANGED <<slots, chips_per_domain, pc, cross_slot_stats, result, topo>>
    /\ UNCHANGED <<caller, view, parser>>

(* main.rs 84 *)
UserChanged ==
    /\ \E v \in Users : app' = [app EXCEPT !.user = v, !.last = Handled("UserChanged")]
    /\ UNCHANGED <<slots, chips_per_domain, pc, cross_slot_stats, result, topo>>
    /\ UNCHANGED <<caller, view, parser>>

(* main.rs 85 *)
PassChanged ==
    /\ \E v \in Passes : app' = [app EXCEPT !.pass = v, !.last = Handled("PassChanged")]
    /\ UNCHANGED <<slots, chips_per_domain, pc, cross_slot_stats, result, topo>>
    /\ UNCHANGED <<caller, view, parser>>

(* mutant: the button sends Fetch while a fetch is loading too *)
Fetch_while_loading ==
    /\ app.in_flight < 2
    /\ app' = [app EXCEPT !.loading = TRUE,
                          !.status = connecting(app.language),
                          !.in_flight = @ + 1,
                          !.last = Handled("Fetch")]
    /\ UNCHANGED <<slots, chips_per_domain, pc, cross_slot_stats, result, topo>>
    /\ UNCHANGED <<caller, view, parser>>

(* main.rs 86-94; the message comes from the button of main.rs 152-158,    *)
(* which has on_press only while loading is false                          *)
Fetch ==
    /\ ~app.loading
    /\ app' = [app EXCEPT !.loading = TRUE,
                          !.status = connecting(app.language),
                          !.in_flight = @ + 1,
                          !.last = Handled("Fetch")]
    /\ UNCHANGED <<slots, chips_per_domain, pc, cross_slot_stats, result, topo>>
    /\ UNCHANGED <<caller, view, parser>>

(* main.rs 95-106: the task has completed with Ok((data, info)) *)
FetchedOk ==
    /\ app.in_flight > 0
    /\ \E o \in FetchOutcomes :
          /\ o.ok
          /\ app' = [app EXCEPT !.loading = FALSE,
                                !.status = summary(app.language, o.data),
                                !.data = <<o.data>>,
                                !.system_info = <<o.info>>,
                                !.in_flight = @ - 1,
                                !.last = Handled("FetchedOk")]
    /\ UNCHANGED <<slots, chips_per_domain, pc, cross_slot_stats, result, topo>>
    /\ UNCHANGED <<caller, view, parser>>

(* main.rs 107-112: the task has completed with Err(e) *)
FetchedErr ==
    /\ app.in_flight > 0
    /\ \E o \in FetchOutcomes :
          /\ ~o.ok
          /\ app' = [app EXCEPT !.loading = FALSE,
                                !.status = error_status(app.language, o.error),
                                !.data = <<>>,
                                !.system_info = <<>>,
                                !.in_flight = @ - 1,
                                !.last = Handled("FetchedErr")]
    /\ UNCHANGED <<slots, chips_per_domain, pc, cross_slot_stats, result, topo>>
    /\ UNCHANGED <<caller, view, parser>>

(* main.rs 113 *)
DividerDragStart ==
    /\ app' = [app EXCEPT !.dragging = TRUE, !.last = Handled("DividerDragStart")]
    /\ UNCHANGED <<slots, chips_per_domain, pc, cross_slot_stats, result, topo>>
    /\ UNCHANGED <<caller, view, parser>>

(* main.rs 114 *)
DividerDragEnd ==
    /\ app' = [app EXCEPT !.dragging = FALSE, !.last = Handled("DividerDragEnd")]
    /\ UNCHANGED <<slots, chips_per_domain, pc, cross_slot_stats, result, topo>>
    /\ UNCHANGED <<caller, view, parser>>

(* main.rs 115-118 *)
DividerDrag ==
    /\ \E x \in DragXs :
          app' = [app EXCEPT !.sidebar_width = IF app.dragging THEN clamp(x, 150, 500) ELSE @,
                             !.last = Handled("DividerDrag")]
    /\ UNCHANGED <<slots, chips_per_domain, pc, cross_slot_stats, result, topo>>
    /\ UNCHANGED <<caller, view, parser>>

(* main.rs 119 *)
ColorModeChanged ==
    /\ \E m \in ColorModes :
          app' = [app EXCEPT !.color_mode = m, !.last = Handled("ColorModeChanged")]
    /\ UNCHANGED <<slots, chips_per_domain, pc, cross_slot_stats, result, topo>>
    /\ UNCHANGED <<caller, view, parser>>

(* main.rs 120-126 *)
LanguageChanged ==
    /\ \E l \in Languages :
          app' = [app EXCEPT !.language = l,
                             !.status = IF app.data = <<>> /\ ~app.loading
                                        THEN ready(l) ELSE @,
                             !.last = Handled("LanguageChanged")]
    /\ UNCHANGED <<slots, chips_per_domain, pc, cross_slot_stats, result, topo>>
    /\ UNCHANGED <<caller, view, parser>>

NextApp ==
    \/ IpChanged
    \/ UserChanged
    \/ PassChanged
    \/ Fetch
    \/ FetchedOk
    \/ FetchedErr
    \/ DividerDragStart
    \/ DividerDragEnd
    \/ DividerDrag
    \/ ColorModeChanged
    \/ LanguageChanged

SpecApp == InitApp /\ [][NextApp]_vars

-----------------------------------------------------------------------------
(* Properties of the update loop (SpecApp).                                *)

FetchStatusKinds == {"summary", "error"}

LanguageChangedLast == app.last.msg = "LanguageChanged"

(* C26: a LanguageChanged message rewrites the status only when the status *)
(* shown is the static ready prompt; a status produced by a fetch, the     *)
(* summary of a success or the error text of a failure, is left unchanged. *)
C26_FetchStatusKept ==
    LanguageChangedLast =>
        /\ (app.status # app.last.status => app.last.status.kind = "ready")
        /\ (app.last.status.kind \in FetchStatusKinds => app.status = app.last.status)

(* the part of C26 the code keeps: the summary of a success, and the       *)
(* connecting text of a fetch that is loading, survive a language change   *)
C26_SummaryKept ==
    LanguageChangedLast /\ app.last.status.kind \in {"summary", "connecting"}
        => app.status = app.last.status

C26_SummaryKeptReached ==
    /\ LanguageChangedLast
    /\ app.last.status.kind = "summary"
    /\ app.language # app.last.status.lang

(* the error text of a failed fetch has been replaced by the ready prompt *)
C26_ErrorRewritten ==
    /\ LanguageChangedLast
    /\ app.last.status.kind = "error"
    /\ app.status = ready(app.language)

C30_SuccessReached ==
    /\ app.last.msg = "FetchedOk"
    /\ app.last.loading
    /\ Len(app.data) = 1
    /\ Len(app.data[1]) = 2

-----------------------------------------------------------------------------
(* Properties of two-domain boards and of the score's range (Spec).        *)

TwoDomainBoards == {i \in Split : topo[i].num_domains = 2}

(* C27: on a board with exactly two domains no chip has an upstream        *)
(* neighbour (domain 0 is the bottom-section intake, domain 1 the          *)
(* top-section intake); with chips_per_domain = 1 a two-chip board has     *)
(* gradient 0 for both chips whatever their temperatures.                  *)
C27_TwoDomainsNoUpstream ==
    \A i \in TwoDomainBoards :
        /\ topo[i].bottom_domains = 1
        /\ \A k \in 1..Len(topo[i].chips) :
              /\ OtherDomainNeighbors(i, k) = {}
              /\ topo[i].chips[k].is_top_section <=> topo[i].chips[k].domain = 1
        /\ (chips_per_domain = 1 /\ Len(result[i]) = 2
              => result[i][1].gradient = Zero /\ result[i][2].gradient = Zero)

(* a two-chip board with one chip per domain, the second chip hotter *)
C27_Witness ==
    /\ pc = "done"
    /\ chips_per_domain = 1
    /\ Len(slots) = 1
    /\ Len(slots[1].chips) = 2
    /\ slots[1].chips[1].temp = 40
    /\ slots[1].chips[2].temp = 53
    /\ 1 \in TwoDomainBoards
    /\ result[1][1].gradient = Zero
    /\ result[1][2].gradient = Zero

(* a two-domain board of four chips: the only neighbours are row neighbours *)
C27_RowNeighborsOnlyReached ==
    /\ pc = "done"
    /\ chips_per_domain = 2
    /\ Len(slots) = 1
    /\ Len(slots[1].chips) = 4
    /\ 1 \in TwoDomainBoards
    /\ result[1][2].gradient # Zero

MaxInt(a, b) == IF a >= b THEN a ELSE b

C28_OnlySampleReached ==
    /\ pc = "done"
    /\ chips_per_domain >= 1
    /\ Len(slots) = 2
    /\ Len(slots[1].chips) = 2
    /\ Len(slots[2].chips) = 1
    /\ slots[1].chips[2].temp = 53
    /\ result[1][2].cross_slot_zscore = Zero
    /\ result[1][1].cross_slot_zscore = FromInt(1)

-----------------------------------------------------------------------------
(* api.rs: parse_text.  A text is the sequence of its lines, a line the    *)
(* sequence of its pieces: a blank, a keyword, a digit, a word.  Of a slot *)
(* the id, nonce_valid and the chips are kept, of a chip the id.           *)

MaxLines == 4       \* lines of a text

Whitespace == {" "}

Digits == {"0", "1", "2", "5"}

DigitValue == [d \in Digits |-> CASE d = "0" -> 0 [] d = "1" -> 1 [] d = "2" -> 2 [] d = "5" -> 5]

TextLines ==
    {<<"slot:", "1">>,                      \* a slot header
     <<" ", "slot:", "2", " ">>,            \* an indented slot header
     <<"x", "slot:", "5">>,                 \* "slot:" inside a line
     <<"nonce valid:", "5", "(">>,          \* a nonce line
     <<"C", "0", " ", "freq:", "5">>,       \* a chip line
     <<" ", "C", "1", " ", "freq:", "5">>,  \* an indented chip line
     <<"C", "x", " ", "freq:", "5">>,       \* a chip line whose id is no number
     <<"C", "2", "freq:">>,                 \* a chip line without a blank
     <<"C", "2", " ">>,                     \* a chip line without "freq:"
     <<"x">>}                               \* another line

Texts == SeqsUpTo(TextLines, MaxLines)

RECURSIVE trim_start(_)
trim_start(line) ==
    IF line # <<>> /\ Head(line) \in Whitespace THEN trim_start(Tail(line)) ELSE line

RECURSIVE trim_end(_)
trim_end(line) ==
    IF line # <<>> /\ line[Len(line)] \in Whitespace
    THEN trim_end(SubSeq(line, 1, Len(line) - 1))
    ELSE line

(* mutant: only the end of the line is trimmed *)
trim_end_only(line) == trim_end(line)

trim(line) == trim_end(trim_start(line))

starts_with(line, piece) == line # <<>> /\ Head(line) = piece

contains(line, piece) == \E k \in 1..Len(line) : line[k] = piece

(* the position of the first piece of S, an Option *)
find(line, S) ==
    LET at == {k \in 1..Len(line) : line[k] \in S}
    IN  IF at = {} THEN <<>> ELSE <<CHOOSE k \in at : \A j \in at : k <= j>>

(* str::parse of an integer, an Option *)
parse_int(pieces) ==
    IF Len(pieces) = 1 /\ pieces[1] \in Digits THEN <<DigitValue[pieces[1]]>> ELSE <<>>

unwrap_or_default(o) == IF o = <<>> THEN 0 ELSE o[1]

ParsedSlot(id) == [id |-> id, nonce_valid |-> 0, chips |-> <<>>]

ParsedChip(id) == [id |-> id]

(* the part "slot: val" of the header *)
parse_slot_header(line) == ParsedSlot(unwrap_or_default(parse_int(trim(Tail(line)))))

parse_nonce_line(line, slot) ==
    LET rest == Tail(line)
        paren == find(rest, {"("})
    IN  IF paren = <<>>
        THEN slot
        ELSE [slot EXCEPT !.nonce_valid =
                 unwrap_or_default(parse_int(trim(SubSeq(rest, 1, paren[1] - 1))))]

parse_chip_line(line) ==
    LET id_end == find(line, Whitespace)
    IN  IF id_end = <<>>
        THEN <<>>
        ELSE LET id == parse_int(SubSeq(line, 2, id_end[1] - 1))
             IN  IF id = <<>> THEN <<>> ELSE <<ParsedChip(id[1])>>

InitParse ==
    /\ \E text \in Texts :
          parser = [pc |-> "lines", text |-> text, line |-> 1, slots |-> <<>>,
                    current |-> <<>>, result |-> <<>>]
    /\ AnalysisIdle
    /\ caller = CallerIdle
    /\ view = ViewIdle
    /\ app = AppIdle

AtLine == parser.pc = "lines" /\ parser.line <= Len(parser.text)

CurrentLine == trim(parser.text[parser.line])

(* api.rs 109-113 *)
SlotLine ==
    /\ AtLine
    /\ starts_with(CurrentLine, "slot:")
    /\ parser' = [parser EXCEPT !.slots = @ \o parser.current,
                                !.current = <<parse_slot_header(CurrentLine)>>,
                                !.line = @ + 1]
    /\ UNCHANGED <<slots, chips_per_domain, pc, cross_slot_stats, result, topo>>
    /\ UNCHANGED <<caller, view, app>>

(* api.rs 114-117 *)
NonceLine ==
    /\ AtLine
    /\ ~starts_with(CurrentLine, "slot:")
    /\ starts_with(CurrentLine, "nonce valid:")
    /\ parser' = [parser EXCEPT !.current = IF @ = <<>> THEN <<>>
                                            ELSE <<parse_nonce_line(CurrentLine, @[1])>>,
                                !.line = @ + 1]
    /\ UNCHANGED <<slots, chips_per_domain, pc, cross_slot_stats, result, topo>>
    /\ UNCHANGED <<caller, view, app>>

IsChipLine(line) ==
    /\ starts_with(line, "C")
    /\ contains(line, "freq:")
    /\ parser.current # <<>>
    /\ parse_chip_line(line) # <<>>

(* api.rs 118-124 *)
ChipLine ==
    /\ AtLine
    /\ ~starts_with(CurrentLine, "slot:")
    /\ ~starts_with(CurrentLine, "nonce valid:")
    /\ IsChipLine(CurrentLine)
    /\ parser' = [parser EXCEPT !.current[1].chips = @ \o parse_chip_line(CurrentLine),
                                !.line = @ + 1]
    /\ UNCHANGED <<slots, chips_per_domain, pc, cross_slot_stats, result, topo>>
    /\ UNCHANGED <<caller, view, app>>

(* api.rs 108-125: a line none of the branches takes *)
OtherLine ==
    /\ AtLine
    /\ ~starts_with(CurrentLine, "slot:")
    /\ ~starts_with(CurrentLine, "nonce valid:")
    /\ ~IsChipLine(CurrentLine)
    /\ parser' = [parser EXCEPT !.line = @ + 1]
    /\ UNCHANGED <<slots, chips_per_domain, pc, cross_slot_stats, result, topo>>
    /\ UNCHANGED <<caller, view, app>>

(* api.rs 127-136 *)
ReturnParsed ==
    /\ parser.pc = "lines"
    /\ parser.line > Len(parser.text)
    /\ LET all == parser.slots \o parser.current
       IN  parser' = [parser EXCEPT !.pc = "done",
                                    !.slots = all,
                                    !.current = <<>>,
                                    !.result = IF all = <<>>
                                               THEN [ok |-> FALSE, slots |-> <<>>]
                                               ELSE [ok |-> TRUE, slots |-> all]]
    /\ UNCHANGED <<slots, chips_per_domain, pc, cross_slot_stats, result, topo>>
    /\ UNCHANGED <<caller, view, app>>

NextParse ==
    \/ SlotLine
    \/ NonceLine
    \/ ChipLine
    \/ OtherLine
    \/ ReturnParsed

SpecParse == InitParse /\ [][NextParse]_vars

-----------------------------------------------------------------------------
(* Properties of parse_text (SpecParse).                                   *)

(* a line without the blanks at its two ends *)
Stripped(line) ==
    LET ink == {k \in 1..Len(line) : line[k] \notin Whitespace}
    IN  IF ink = {} THEN <<>>
        ELSE SubSeq(line, CHOOSE a \in ink : \A k \in ink : a <= k,
                          CHOOSE b \in ink : \A k \in ink : k <= b)

(* the members of a set of line numbers, in ascending order *)
Ascending(S) ==
    CHOOSE q \in [1..Cardinality(S) -> S] :
        \A a, b \in 1..Cardinality(S) : a < b => q[a] < q[b]

LineNumbers == 1..Len(parser.text)

(* the lines that start with "slot:" as they stand in the text, and after *)
(* the blanks at their ends are removed                                   *)
RawSlotLines == {k \in LineNumbers : Len(parser.text[k]) >= 1 /\ parser.text[k][1] = "slot:"}

StrippedSlotLines ==
    {k \in LineNumbers : Len(Stripped(parser.text[k])) >= 1
                         /\ Stripped(parser.text[k])[1] = "slot:"}

(* C <number> <blank> ... freq: ... *)
GoodChipLine(k) ==
    LET l == Stripped(parser.text[k])
    IN  /\ Len(l) >= 3
        /\ l[1] = "C"
        /\ l[2] \in Digits
        /\ l[3] \in Whitespace
        /\ \E j \in 1..Len(l) : l[j] = "freq:"

NonceLineAt(k) ==
    LET l == Stripped(parser.text[k])
    IN  Len(l) >= 1 /\ l[1] = "nonce valid:"

(* What the claim describes for the slot lines H: one slot per line of H   *)
(* in order, holding the chips of the successfully parsed chip lines       *)
(* between it and the next line of H; an error exactly when H is empty.    *)
SlotPerLine(H) ==
    LET h == Ascending(H)
        n == Cardinality(H)
        upto(j) == IF j < n THEN h[j + 1] - 1 ELSE Len(parser.text)
    IN  /\ ~parser.result.ok <=> H = {}
        /\ Len(parser.result.slots) = n
        /\ \A j \in 1..n :
              LET cl == Ascending({k \in (h[j] + 1)..upto(j) : GoodChipLine(k)})
              IN  parser.result.slots[j].chips =
                      [c \in 1..Len(cl) |->
                          ParsedChip(DigitValue[Stripped(parser.text[cl[c]])[2]])]

(* C29: parse_text returns an error exactly when the text has no line      *)
(* starting with "slot:"; otherwise one slot per "slot:" line in order of  *)
(* appearance, each successfully parsed chip line appended to the most     *)
(* recent preceding slot, chip and nonce lines before the first "slot:"    *)
(* line discarded.  Here a line starts with "slot:" as it stands.          *)
C29_SlotPerSlotLine == parser.pc = "done" => SlotPerLine(RawSlotLines)

(* C29 with the lines taken after the blanks at their ends are removed *)
C29_SlotPerTrimmedSlotLine ==
    parser.pc = "done" =>
        /\ SlotPerLine(StrippedSlotLines)
        /\ \A j \in 1..Len(parser.result.slots) :
              LET h == Ascending(StrippedSlotLines)
                  upto == IF j < Len(h) THEN h[j + 1] - 1 ELSE Len(parser.text)
              IN  /\ parser.result.slots[j].id =
                        (IF Len(Stripped(parser.text[h[j]])) = 2
                            /\ Stripped(parser.text[h[j]])[2] \in Digits
                         THEN DigitValue[Stripped(parser.text[h[j]])[2]] ELSE 0)
                  /\ parser.result.slots[j].nonce_valid # 0
                        <=> \E k \in (h[j] + 1)..upto : NonceLineAt(k)

(* a chip line, an indented slot header, an indented chip line, a slot     *)
(* header: two slots, the first with the chip after it, the chip line      *)
(* before it discarded                                                     *)
C29_Witness ==
    /\ parser.pc = "done"
    /\ Len(parser.text) = 4
    /\ parser.text[1] = <<"C", "0", " ", "freq:", "5">>
    /\ parser.text[2] = <<" ", "slot:", "2", " ">>
    /\ parser.text[3] = <<" ", "C", "1", " ", "freq:", "5">>
    /\ parser.text[4] = <<"slot:", "1">>
    /\ parser.result.ok
    /\ Len(parser.result.slots) = 2
    /\ parser.result.slots[1] = [id |-> 2, nonce_valid |-> 0, chips |-> <<ParsedChip(1)>>]
    /\ parser.result.slots[2] = ParsedSlot(1)

(* chip and nonce lines only: the error *)
C29_ErrorReached ==
    /\ parser.pc = "done"
    /\ Len(parser.text) = 2
    /\ GoodChipLine(1)
    /\ NonceLineAt(2)
    /\ ~parser.result.ok
    /\ parser.result.slots = <<>>

=============================================================================
